---- MODULE Spec2Model ----
(***************************************************************************)
(* MediaTrackReceiver (pkg/rtc/mediatrackreceiver.go): the publisher-side  *)
(* per-track object that owns the ordered list of simulcast receivers, the *)
(* TrackInfo, the lifecycle state and the close / setup hooks.             *)
(*                                                                         *)
(* Every section of a method that runs with t.lock held is one atomic      *)
(* step; whatever the method does after releasing the lock (hooks, calls   *)
(* into the subscriptions collaborator) is a later step of the same        *)
(* thread, so that other threads interleave exactly where the code lets    *)
(* them.                                                                   *)
(***************************************************************************)
EXTENDS Integers, Sequences, FiniteSets, TLC

VARIABLES
    state,             \* t.state
    receivers,         \* t.receivers: sequence of slot ids (*simulcastReceiver)
    slots,             \* the simulcastReceiver objects ever allocated, by id
    potentialCodecs,   \* t.potentialCodecs (mime types)
    trackInfo,         \* t.trackInfo
    onSetupReceiver,   \* t.onSetupReceiver ("nil" or "f")
    onClose,           \* t.onClose: sequence of registered hooks
    subscribed,        \* subscriptions collaborator: the subscribed tracks
    pc,                \* per thread: where it is inside a public method
    closeCalls,        \* history: on_close hook invocations, in order
    setupCalls,        \* history: on_setup_receiver hook invocations
    removed,           \* history: collaborator remove_subscriber calls
    added,             \* history: collaborator add_subscriber calls, with result
    regs,              \* history: lifecycle state when each hook was registered
    calls,             \* history: calls made to receivers, collaborator, telemetry
    lock,              \* t.lock, where it is followed step by step (SpecLock)
    ops,               \* number of public method calls started so far
    ev                 \* the step just taken (which call, its outcome)

vars == <<state, receivers, slots, potentialCodecs, trackInfo, onSetupReceiver,
          onClose, subscribed, pc, closeCalls, setupCalls, removed, added,
          regs, calls, lock, ops, ev>>

-----------------------------------------------------------------------------
(* Bounds of the model *)

MaxOps == 6
SlotOps == 4
SortOps == 4
SubOps == 5
InfoOps == 3
MuteOps == 4
LockOps == 3
LockDepth == 2
QualityOps == 2
RaceOps == 2
FanOps == 3

Threads == {"t1", "t2"}

-----------------------------------------------------------------------------
(* mediaTrackReceiverState *)

mediaTrackReceiverStateOpen == 0
mediaTrackReceiverStateClosing == 1
mediaTrackReceiverStateClosed == 2

-----------------------------------------------------------------------------
(* Mime types and strings.EqualFold *)

Mimes == {"video/VP8", "video/vp8", "video/H264"}

ToLower(m) ==
    CASE m = "video/VP8" -> "video/vp8"
      [] m = "video/H264" -> "video/h264"
      [] m = "video/AV1" -> "video/av1"
      [] m = "video/VP9" -> "video/vp9"
      [] m = "video/H265" -> "video/h265"
      [] OTHER -> m

EqualFold(a, b) == ToLower(a) = ToLower(b)

-----------------------------------------------------------------------------
(* Receivers.  A real receiver is [id, mime]; a slot (simulcastReceiver) is *)
(* the embedded TrackReceiver plus its priority.  A slot whose TrackReceiver*)
(* is a *DummyReceiver has dummy = TRUE, the codec it was announced with,    *)
(* and recv = its delegate (NoReceiver until upgraded).  upgrades counts the *)
(* d.Upgrade calls SetupReceiver made on the slot.                          *)

NoReceiver == [id |-> 0, mime |-> ""]

NewDummyReceiver(codec, priority) ==
    [dummy |-> TRUE, codec |-> codec, recv |-> NoReceiver,
     priority |-> priority, upgrades |-> 0]

NewSimulcastReceiver(receiver, priority) ==
    [dummy |-> FALSE, codec |-> receiver.mime, recv |-> receiver,
     priority |-> priority, upgrades |-> 0]

\* DummyReceiver.Receiver(): the current delegate, or nil
DummyDelegate(s) == s.recv

\* r.Codec().MimeType: a Dummy proxies to its delegate once it has one
Codec(s) == IF s.dummy /\ s.recv # NoReceiver THEN s.recv.mime ELSE s.codec

\* DummyReceiver.Upgrade(receiver): sets the delegate.  It is to be called at
\* most once per Dummy; what a further call does to the delegate is not laid
\* down, so both outcomes (delegate kept, delegate replaced) are possible.
Upgrade(s, receiver) ==
    IF s.recv = NoReceiver
    THEN {[s EXCEPT !.recv = receiver]}
    ELSE {s, [s EXCEPT !.recv = receiver]}

Min(S) == CHOOSE x \in S : \A y \in S : x <= y

-----------------------------------------------------------------------------
(* sort.Slice(receivers, func(i, j) { return receivers[i].Priority() <      *)
(* receivers[j].Priority() }).  sort.Slice is not a stable sort.  For at    *)
(* most 12 elements the Go toolchains do one of two things: insertion sort  *)
(* (Go 1.19 and later), or one shell pass with gap 6 followed by insertion  *)
(* sort (Go 1.18 and earlier).  Both outcomes are kept.                     *)

Less(sl, a, b) == sl[a].priority < sl[b].priority

Swap(s, i, j) == [s EXCEPT ![i] = s[j], ![j] = s[i]]

RECURSIVE Sink(_, _, _)
Sink(sl, s, j) ==
    IF j > 1 /\ Less(sl, s[j], s[j - 1])
    THEN Sink(sl, Swap(s, j, j - 1), j - 1)
    ELSE s

RECURSIVE InsertionSortFrom(_, _, _)
InsertionSortFrom(sl, s, i) ==
    IF i > Len(s) THEN s ELSE InsertionSortFrom(sl, Sink(sl, s, i), i + 1)

InsertionSort(sl, s) == InsertionSortFrom(sl, s, 2)

RECURSIVE ShellPassFrom(_, _, _)
ShellPassFrom(sl, s, i) ==
    IF i > Len(s) THEN s
    ELSE ShellPassFrom(sl,
                       IF Less(sl, s[i], s[i - 6]) THEN Swap(s, i, i - 6) ELSE s,
                       i + 1)

ShellPass(sl, s) == ShellPassFrom(sl, s, 7)

SortSlice(sl, s) == {InsertionSort(sl, s), InsertionSort(sl, ShellPass(sl, s))}

-----------------------------------------------------------------------------
(* TrackInfo: top-level mime_type and mid, and the CodecInfo list *)

\* a TrackInfo as a publisher announces it: no mid, no cid, no layers, unmuted
NewCodecInfo(mime) == [mimeType |-> mime, mid |-> "", cid |-> "", layers |-> <<>>]

NewTrackInfo(mime, mimes) ==
    [mimeType |-> mime, mid |-> "", muted |-> FALSE, layers |-> <<>>,
     codecs |-> [i \in 1..Len(mimes) |-> NewCodecInfo(mimes[i])]]

\* SetupReceiver overwriting the top-level fields whatever the priority
SetupTrackInfoAlwaysTop(ti, receiver, priority, mid) ==
    IF mid = "" THEN ti
    ELSE LET top == [ti EXCEPT !.mimeType = receiver.mime, !.mid = mid]
         IN  IF priority + 1 \in 1..Len(ti.codecs)
             THEN [top EXCEPT !.codecs[priority + 1] =
                       [@ EXCEPT !.mimeType = receiver.mime, !.mid = mid]]
             ELSE top

\* SetupReceiver, lines 181-194; priority is the 0-based index of the loop
SetupTrackInfo(ti, receiver, priority, mid) ==
    IF mid = "" THEN ti
    ELSE LET top == IF priority = 0
                    THEN [ti EXCEPT !.mimeType = receiver.mime, !.mid = mid]
                    ELSE ti
         IN  IF priority + 1 \in 1..Len(ti.codecs)
             THEN [top EXCEPT !.codecs[priority + 1] =
                       [@ EXCEPT !.mimeType = receiver.mime, !.mid = mid]]
             ELSE top

-----------------------------------------------------------------------------
(* Thread positions and the record of the step just taken *)

\* t.lock where it is not followed step by step: a section that runs with the
\* lock held is one step, so the lock is free between any two steps
NoLock == [w |-> "", r |-> <<>>]

Idle == [at |-> "idle", op |-> "", hooks |-> <<>>, mimes |-> <<>>,
         recvs |-> <<>>, live |-> FALSE, codecs |-> <<>>, w |-> FALSE,
         sub |-> "", tracks |-> <<>>, n |-> 0, allowed |-> <<>>,
         revoked |-> <<>>, todo |-> <<>>, muted |-> FALSE,
         updateMute |-> FALSE, ti |-> <<>>, base |-> 0]

Event(t, op, ph, val, slot) ==
    [t |-> t, op |-> op, ph |-> ph, val |-> val, slot |-> slot]

\* the return of a method that returns a list
EventRet(t, op, ret) ==
    [t |-> t, op |-> op, ph |-> "ret", val |-> "", slot |-> 0, ret |-> ret]

Init ==
    /\ state = mediaTrackReceiverStateOpen
    /\ receivers = <<>>
    /\ slots = <<>>
    /\ potentialCodecs = <<>>
    /\ trackInfo = NewTrackInfo("video/VP8", <<"video/VP8", "video/H264">>)
    /\ onSetupReceiver = "nil"
    /\ onClose = <<>>
    /\ subscribed = <<>>
    /\ pc = [t \in Threads |-> Idle]
    /\ closeCalls = <<>>
    /\ setupCalls = <<>>
    /\ removed = <<>>
    /\ added = <<>>
    /\ regs = <<>>
    /\ calls = <<>>
    /\ lock = NoLock
    /\ ops = 0
    /\ ev = Event("", "", "", "", 0)

\* a thread that is in no method starts one
Begin(t) == pc[t].at = "idle" /\ ops' = ops + 1

\* A slice taken from t.receivers (by AddSubscriber, line 445, and kept in the
\* WrappedReceiver) shares the backing array of the list it was taken from;
\* live says that this array is still the one t.receivers points to.  A method
\* that clones the list before it writes (slices.Clone, lines 160, 228, 258)
\* and publishes the clone leaves every slice taken earlier as it was, and
\* none of them is live afterwards.
DetachSnap(x) == [x EXCEPT !.live = FALSE]
DetachSubs(subs) == [i \in 1..Len(subs) |-> DetachSnap(subs[i])]
DetachPc(p) == [t \in Threads |-> DetachSnap(p[t])]

slotVars == <<receivers, slots, potentialCodecs, trackInfo>>
hookVars == <<onSetupReceiver, onClose, regs>>
callVars == <<calls, lock>>
subVars == <<subscribed, removed, added>>
histVars == <<closeCalls, setupCalls>>

-----------------------------------------------------------------------------
(* Lifecycle: SetClosing, AddOnClose, Close, TryClose *)

\* SetClosing without its test of the current state
SetClosingStateUnguarded(st) == mediaTrackReceiverStateClosing

\* SetClosing, lines 304-310
SetClosingState(st) ==
    IF st = mediaTrackReceiverStateOpen THEN mediaTrackReceiverStateClosing ELSE st

SetClosing(t) ==
    /\ Begin(t)
    /\ state' = SetClosingState(state)
    /\ ev' = Event(t, "SetClosing", "ret", "", 0)
    /\ UNCHANGED <<slotVars, hookVars, subVars, histVars, pc>>
    /\ UNCHANGED callVars

\* AddOnClose, lines 427-435; the hook registered is a fresh function value,
\* named by its position, or nil
AddOnClose(t, f) ==
    /\ Begin(t)
    /\ IF f = "nil"
       THEN UNCHANGED <<onClose, regs>>
       ELSE /\ onClose' = Append(onClose, Len(onClose) + 1)
            /\ regs' = Append(regs, state)
    /\ ev' = Event(t, "AddOnClose", "ret", f, 0)
    /\ UNCHANGED <<state, slotVars, onSetupReceiver, subVars, histVars, pc>>
    /\ UNCHANGED callVars

\* Close without its early return: every call takes the hooks
CloseSnapshotEveryCall(st, hooks) == hooks

\* Close that leaves the last registered hook out of its snapshot
CloseSnapshotDropLast(st, hooks) ==
    IF st = mediaTrackReceiverStateClosed \/ hooks = <<>> THEN <<>>
    ELSE SubSeq(hooks, 1, Len(hooks) - 1)

\* Close, lines 332-340: the section under t.lock.  The hooks to run are the
\* snapshot taken here; a caller that finds the state Closed returns at once.
CloseSnapshot(st, hooks) ==
    IF st = mediaTrackReceiverStateClosed THEN <<>> ELSE hooks

CloseLocked(t, op) ==
    LET snap == CloseSnapshot(state, onClose) IN
    /\ state' = mediaTrackReceiverStateClosed
    /\ IF snap = <<>>
       THEN /\ pc' = [pc EXCEPT ![t] = Idle]
            /\ ev' = Event(t, op, "ret",
                           IF state = mediaTrackReceiverStateClosed
                           THEN "already" ELSE "closed", 0)
       ELSE /\ pc' = [pc EXCEPT ![t] = [Idle EXCEPT !.at = "Close_hooks",
                                                    !.op = op, !.hooks = snap]]
            /\ ev' = Event(t, op, "step", "closed", 0)
    /\ UNCHANGED <<slotVars, hookVars, subVars, histVars>>
    /\ UNCHANGED callVars

Close(t) == Begin(t) /\ CloseLocked(t, "Close")

\* Close, lines 342-344: one hook per step, outside the lock; the call returns
\* after the last one
CloseHook(t) ==
    /\ pc[t].at = "Close_hooks"
    /\ closeCalls' = Append(closeCalls, [hook |-> Head(pc[t].hooks), st |-> state])
    /\ IF Tail(pc[t].hooks) = <<>>
       THEN /\ pc' = [pc EXCEPT ![t] = Idle]
            /\ ev' = Event(t, pc[t].op, "ret", "closed", 0)
       ELSE /\ pc' = [pc EXCEPT ![t].hooks = Tail(@)]
            /\ ev' = Event(t, pc[t].op, "hook", "closed", 0)
    /\ UNCHANGED <<state, slotVars, hookVars, subVars, setupCalls, ops>>
    /\ UNCHANGED callVars

\* TryClose refusing on any DummyReceiver, with or without a delegate
HasAnyDummy(sl, list) == \E i \in 1..Len(list) : sl[list[i]].dummy

\* TryClose, lines 319-324: some slot is a DummyReceiver with a delegate
HasUpgradedDummy(sl, list) ==
    \E i \in 1..Len(list) :
        sl[list[i]].dummy /\ DummyDelegate(sl[list[i]]) # NoReceiver

\* TryClose, lines 313-325: the section under t.lock.RLock
TryCloseCheck(st, sl, list) ==
    IF st = mediaTrackReceiverStateClosed THEN "true"
    ELSE IF HasUpgradedDummy(sl, list) THEN "false"
    ELSE "close"

TryClose(t) ==
    LET r == TryCloseCheck(state, slots, receivers) IN
    /\ Begin(t)
    /\ IF r = "close"
       THEN /\ pc' = [pc EXCEPT ![t] = [Idle EXCEPT !.at = "TryClose_close",
                                                    !.op = "TryClose"]]
            /\ ev' = Event(t, "TryClose", "step", "check", 0)
       ELSE /\ pc' = pc
            /\ ev' = Event(t, "TryClose", "ret", r, 0)
    /\ UNCHANGED <<state, slotVars, hookVars, subVars, histVars>>
    /\ UNCHANGED callVars

\* TryClose, line 326: t.Close()
TryCloseClose(t) ==
    /\ pc[t].at = "TryClose_close"
    /\ CloseLocked(t, "TryClose")
    /\ UNCHANGED ops

-----------------------------------------------------------------------------
(* SetupReceiver, OnSetupReceiver, SetPotentialCodecs *)

\* OnSetupReceiver, lines 146-150
OnSetupReceiver(t, f) ==
    /\ Begin(t)
    /\ onSetupReceiver' = f
    /\ ev' = Event(t, "OnSetupReceiver", "ret", f, 0)
    /\ UNCHANGED <<state, slotVars, onClose, regs, subVars, histVars, pc>>
    /\ UNCHANGED callVars

\* SetupReceiver refusing only a Closed track
SetupAllowedUnlessClosed(st) == st # mediaTrackReceiverStateClosed

\* SetupReceiver, lines 154-158
SetupAllowed(st) == st = mediaTrackReceiverStateOpen

\* SetupReceiver, lines 164-172: position in the list of the first slot whose
\* mime matches and which is a *DummyReceiver; 0 when there is none
UpgradeIndex(sl, list, mime) ==
    LET c == {i \in 1..Len(list) :
                 EqualFold(Codec(sl[list[i]]), mime) /\ sl[list[i]].dummy}
    IN  IF c = {} THEN 0 ELSE Min(c)

\* SetupReceiver, lines 160-175: the slot objects after the upgrade or append
\* (the set of outcomes: one, unless Upgrade is called on an upgraded Dummy)
SetupSlots(sl, list, receiver, priority) ==
    LET idx == UpgradeIndex(sl, list, receiver.mime) IN
    IF idx # 0
    THEN {[sl EXCEPT ![list[idx]] = [u EXCEPT !.upgrades = @ + 1]] :
             u \in Upgrade(sl[list[idx]], receiver)}
    ELSE {Append(sl, NewSimulcastReceiver(receiver, priority))}

\* SetupReceiver, lines 160-175: the cloned list before it is sorted
SetupList(sl, list, receiver) ==
    IF UpgradeIndex(sl, list, receiver.mime) # 0
    THEN list
    ELSE Append(list, Len(sl) + 1)

\* SetupReceiver, lines 153-198: the section under t.lock
SetupReceiver(t, mime, priority, mid) ==
    LET receiver == [id |-> ops + 1, mime |-> mime]
        idx == UpgradeIndex(slots, receivers, mime)
        list1 == SetupList(slots, receivers, receiver)
    IN
    /\ Begin(t)
    /\ IF ~SetupAllowed(state)
       THEN /\ ev' = Event(t, "SetupReceiver", "ret", "notopen", 0)
            /\ UNCHANGED <<slotVars, pc, subscribed>>
       ELSE /\ \E sl1 \in SetupSlots(slots, receivers, receiver, priority) :
                  /\ slots' = sl1
                  /\ \E sorted \in SortSlice(sl1, list1) : receivers' = sorted
            /\ trackInfo' = SetupTrackInfo(trackInfo, receiver, priority, mid)
            /\ UNCHANGED potentialCodecs
            /\ subscribed' = DetachSubs(subscribed)
            /\ IF onSetupReceiver = "nil"
               THEN /\ pc' = DetachPc(pc)
                    /\ ev' = Event(t, "SetupReceiver", "ret",
                                   IF idx # 0 THEN "upgrade" ELSE "append",
                                   IF idx # 0 THEN receivers[idx] ELSE Len(slots) + 1)
               ELSE /\ pc' = [DetachPc(pc) EXCEPT ![t] =
                                 [Idle EXCEPT !.at = "SetupReceiver_hook",
                                              !.op = "SetupReceiver",
                                              !.mimes = <<mime>>]]
                    /\ ev' = Event(t, "SetupReceiver", "step",
                                   IF idx # 0 THEN "upgrade" ELSE "append",
                                   IF idx # 0 THEN receivers[idx] ELSE Len(slots) + 1)
    /\ UNCHANGED <<state, hookVars, removed, added, histVars>>
    /\ UNCHANGED callVars

\* SetupReceiver, lines 212-214: the hook, outside the lock
SetupReceiverHook(t) ==
    /\ pc[t].at = "SetupReceiver_hook"
    /\ setupCalls' = Append(setupCalls, Head(pc[t].mimes))
    /\ pc' = [pc EXCEPT ![t] = Idle]
    /\ ev' = Event(t, "SetupReceiver", "ret", "hooked", 0)
    /\ UNCHANGED <<state, slotVars, hookVars, subVars, closeCalls, ops>>
    /\ UNCHANGED callVars

\* the loop of SetPotentialCodecs comparing mimes with == instead of EqualFold
RECURSIVE PotentialLoopExact(_, _, _, _)
PotentialLoopExact(sl, list, codecs, i) ==
    IF i > Len(codecs) THEN [sl |-> sl, list |-> list]
    ELSE IF \E k \in 1..Len(list) : codecs[i] = Codec(sl[list[k]])
         THEN PotentialLoopExact(sl, list, codecs, i + 1)
         ELSE PotentialLoopExact(Append(sl, NewDummyReceiver(codecs[i], i - 1)),
                                 Append(list, Len(sl) + 1), codecs, i + 1)

\* SetPotentialCodecs, lines 230-248: the loop over codecs, from index i
\* (1-based here; the priority given is the 0-based index)
RECURSIVE PotentialLoop(_, _, _, _)
PotentialLoop(sl, list, codecs, i) ==
    IF i > Len(codecs) THEN [sl |-> sl, list |-> list]
    ELSE IF \E k \in 1..Len(list) : EqualFold(codecs[i], Codec(sl[list[k]]))
         THEN PotentialLoop(sl, list, codecs, i + 1)
         ELSE PotentialLoop(Append(sl, NewDummyReceiver(codecs[i], i - 1)),
                            Append(list, Len(sl) + 1), codecs, i + 1)

\* SetPotentialCodecs, lines 227-253
SetPotentialCodecs(t, codecs) ==
    LET r == PotentialLoop(slots, receivers, codecs, 1) IN
    /\ Begin(t)
    /\ potentialCodecs' = codecs
    /\ slots' = r.sl
    /\ \E sorted \in SortSlice(r.sl, r.list) : receivers' = sorted
    /\ subscribed' = DetachSubs(subscribed)
    /\ pc' = DetachPc(pc)
    /\ ev' = Event(t, "SetPotentialCodecs", "ret", "", 0)
    /\ UNCHANGED <<state, trackInfo, hookVars, removed, added, histVars>>
    /\ UNCHANGED callVars

-----------------------------------------------------------------------------
(* The subscriptions collaborator (MediaTrackSubscriptions): the subscribed *)
(* tracks, each with the WrappedReceiver it was built from and the mime of  *)
(* its down-track.                                                         *)

\* SubscribedTrack.SubscriberIdentity of the participant with this id
Identity(sub) ==
    CASE sub = "s1" -> "alice"
      [] sub = "s2" -> "bob"
      [] OTHER -> sub

\* GetAllSubscribersForMime
SubscribersForMime(subs, mime) ==
    SelectSeq(subs, LAMBDA x : EqualFold(x.mime, mime))

\* RemoveSubscriber for every subscriber of the mime
RemoveSubscribersForMime(subs, mime) ==
    SelectSeq(subs, LAMBDA x : ~EqualFold(x.mime, mime))

RemoveCalls(subs, mime, w) ==
    [i \in 1..Len(SubscribersForMime(subs, mime)) |->
        [sub |-> SubscribersForMime(subs, mime)[i].sub, w |-> w]]

IsSubscribed(subs, sub) == \E i \in 1..Len(subs) : subs[i].sub = sub

\* RemoveSubscriber(subscriberID, willBeResumed)
RemoveSubscriber(subs, sub) == SelectSeq(subs, LAMBDA x : x.sub # sub)

\* getAllSubscribedTracks: the subscribed tracks, in an order of the
\* collaborator's choosing
SubscribedTracks(subs) ==
    {[i \in 1..Len(subs) |-> subs[f[i]]] : f \in Permutations(1..Len(subs))}

-----------------------------------------------------------------------------
(* ClearReceiver, ClearAllReceivers *)

\* ClearReceiver, lines 258-266: the first matching slot is overwritten by the
\* last one and the list is shortened by one
ClearList(sl, list, mime) ==
    LET c == {i \in 1..Len(list) : EqualFold(Codec(sl[list[i]]), mime)} IN
    IF c = {} THEN list
    ELSE SubSeq([list EXCEPT ![Min(c)] = list[Len(list)]], 1, Len(list) - 1)

\* ClearReceiver writing into t.receivers itself, without the clone: a slice
\* that shares the array sees the last slot moved and a nil (0) in its place
ClearSeenInPlace(x, sl, list, mime) ==
    LET c == {i \in 1..Len(list) : EqualFold(Codec(sl[list[i]]), mime)}
        arr == [list EXCEPT ![Min(c)] = list[Len(list)], ![Len(list)] = 0]
    IN  IF c = {} \/ ~x.live THEN x
        ELSE [x EXCEPT !.recvs = [i \in 1..Len(x.recvs) |->
                                     IF i <= Len(arr) THEN arr[i] ELSE 0]]

\* ClearReceiver, lines 258-267: what a slice taken earlier from t.receivers
\* shows afterwards.  The writes of lines 261-263 go to the clone of line 258.
ClearSeen(x, sl, list, mime) == DetachSnap(x)

\* ClearReceiver, lines 257-268
ClearReceiver(t, mime, w) ==
    /\ Begin(t)
    /\ receivers' = ClearList(slots, receivers, mime)
    /\ subscribed' = [i \in 1..Len(subscribed) |->
                         ClearSeen(subscribed[i], slots, receivers, mime)]
    /\ pc' = [[u \in Threads |-> ClearSeen(pc[u], slots, receivers, mime)]
                 EXCEPT ![t] = [Idle EXCEPT !.at = "Clear_remove",
                                            !.op = "ClearReceiver",
                                            !.mimes = <<mime>>, !.w = w]]
    /\ ev' = Event(t, "ClearReceiver", "step", "", 0)
    /\ UNCHANGED <<state, slots, potentialCodecs, trackInfo, hookVars, removed,
                   added, histVars>>
    /\ UNCHANGED callVars

\* ClearAllReceivers, lines 275-278
ClearAllReceivers(t, w) ==
    /\ Begin(t)
    /\ receivers' = <<>>
    /\ subscribed' = DetachSubs(subscribed)
    /\ IF receivers = <<>>
       THEN /\ pc' = DetachPc(pc)
            /\ ev' = Event(t, "ClearAllReceivers", "ret", "", 0)
       ELSE /\ pc' = [DetachPc(pc) EXCEPT ![t] =
                         [Idle EXCEPT !.at = "ClearAll_remove",
                                      !.op = "ClearAllReceivers",
                                      !.recvs = receivers, !.w = w]]
            /\ ev' = Event(t, "ClearAllReceivers", "step", "", 0)
    /\ UNCHANGED <<state, slots, potentialCodecs, trackInfo, hookVars, removed,
                   added, histVars>>
    /\ UNCHANGED callVars

\* ClearReceiver, line 270: removeAllSubscribersForMime(mime, willBeResumed)
ClearRemove(t) ==
    /\ pc[t].at = "Clear_remove"
    /\ subscribed' = RemoveSubscribersForMime(subscribed, Head(pc[t].mimes))
    /\ removed' = removed \o RemoveCalls(subscribed, Head(pc[t].mimes), pc[t].w)
    /\ pc' = [pc EXCEPT ![t] = Idle]
    /\ ev' = Event(t, "ClearReceiver", "ret", "", 0)
    /\ UNCHANGED <<state, slotVars, hookVars, histVars, added, ops>>
    /\ UNCHANGED callVars

\* ClearAllReceivers, lines 280-282: one removed receiver per step
ClearAllRemove(t) ==
    LET mime == Codec(slots[Head(pc[t].recvs)]) IN
    /\ pc[t].at = "ClearAll_remove"
    /\ subscribed' = RemoveSubscribersForMime(subscribed, mime)
    /\ removed' = removed \o RemoveCalls(subscribed, mime, pc[t].w)
    /\ IF Tail(pc[t].recvs) = <<>>
       THEN /\ pc' = [pc EXCEPT ![t] = Idle]
            /\ ev' = Event(t, "ClearAllReceivers", "ret", "", 0)
       ELSE /\ pc' = [pc EXCEPT ![t].recvs = Tail(@)]
            /\ ev' = Event(t, "ClearAllReceivers", "step", "", 0)
    /\ UNCHANGED <<state, slotVars, hookVars, histVars, added, ops>>
    /\ UNCHANGED callVars

-----------------------------------------------------------------------------
(* AddSubscriber *)

\* AddSubscriber testing the slot list before the state
AddSubscriberCheckListFirst(st, list) ==
    IF Len(list) = 0 THEN "NoReceiver"
    ELSE IF st # mediaTrackReceiverStateOpen THEN "NotOpen"
    ELSE "call"

\* AddSubscriber, lines 439-453
AddSubscriberCheck(st, list) ==
    IF st # mediaTrackReceiverStateOpen THEN "NotOpen"
    ELSE IF Len(list) = 0 THEN "NoReceiver"
    ELSE "call"

\* AddSubscriber, lines 455-467
RECURSIVE UpstreamCodecs(_, _, _, _)
UpstreamCodecs(sl, list, codecs, i) ==
    IF i > Len(list) THEN codecs
    ELSE IF \E k \in 1..Len(codecs) : codecs[k] = Codec(sl[list[i]])
         THEN UpstreamCodecs(sl, list, codecs, i + 1)
         ELSE UpstreamCodecs(sl, list, Append(codecs, Codec(sl[list[i]])), i + 1)

\* AddSubscriber, lines 439-453: the section under t.lock.RLock and the check
\* of the snapshot
AddSubscriber(t, sub) ==
    LET r == AddSubscriberCheck(state, receivers) IN
    /\ Begin(t)
    /\ IF r = "call"
       THEN /\ pc' = [pc EXCEPT ![t] = [Idle EXCEPT !.at = "AddSubscriber_call",
                                                    !.op = "AddSubscriber",
                                                    !.recvs = receivers,
                                                    !.live = TRUE,
                                                    !.codecs = potentialCodecs,
                                                    !.sub = sub]]
            /\ ev' = Event(t, "AddSubscriber", "step", "", 0)
       ELSE /\ pc' = pc
            /\ ev' = Event(t, "AddSubscriber", "ret", r, 0)
    /\ UNCHANGED <<state, slotVars, hookVars, subVars, histVars>>
    /\ UNCHANGED callVars

\* AddSubscriber, lines 455-485: the WrappedReceiver is built from the snapshot
\* and handed to the collaborator, whose result is returned
AddSubscriberCall(t) ==
    LET wr == [sub |-> pc[t].sub, recvs |-> pc[t].recvs, live |-> pc[t].live,
               codecs |-> UpstreamCodecs(slots, pc[t].recvs, pc[t].codecs, 1)]
    IN
    /\ pc[t].at = "AddSubscriber_call"
    /\ \E res \in {"ok", "err"} :
          /\ res = "ok" => ~IsSubscribed(subscribed, pc[t].sub)
          /\ IF res = "ok"
             THEN \E i \in 1..Len(wr.recvs) :
                     subscribed' = Append(subscribed,
                         [sub |-> wr.sub, identity |-> Identity(wr.sub),
                          recvs |-> wr.recvs, live |-> wr.live,
                          codecs |-> wr.codecs,
                          mime |-> Codec(slots[wr.recvs[i]])])
             ELSE subscribed' = subscribed
          /\ added' = Append(added, [sub |-> wr.sub, res |-> res])
          /\ ev' = Event(t, "AddSubscriber", "ret", res, 0)
    /\ pc' = [pc EXCEPT ![t] = Idle]
    /\ UNCHANGED <<state, slotVars, hookVars, removed, histVars, ops>>
    /\ UNCHANGED callVars

-----------------------------------------------------------------------------
(* TrackInfo updates: SetMuted, SetLayerSsrc, UpdateCodecCid,               *)
(* UpdateTrackInfo, UpdateVideoLayers.  A layer is [quality, ssrc].  What a *)
(* method does after it has released the lock is a list of steps (todo)     *)
(* that the thread takes one at a time.                                     *)

CodecIndex(codecs, mime) ==
    LET c == {i \in 1..Len(codecs) : EqualFold(codecs[i].mimeType, mime)}
    IN  IF c = {} THEN 0 ELSE Min(c)

LayerIndex(layers, quality) ==
    LET c == {j \in 1..Len(layers) : layers[j].quality = quality}
    IN  IF c = {} THEN 0 ELSE Min(c)

\* SetLayerSsrc writing the ssrc whether or not the layer has one
SetLayerSsrcOverwrite(ti, mime, quality, ssrc) ==
    LET i == CodecIndex(ti.codecs, mime) IN
    IF i = 0 THEN ti
    ELSE LET ls == ti.codecs[i].layers
             j == LayerIndex(ls, quality)
             ls1 == IF j # 0 THEN [ls EXCEPT ![j].ssrc = ssrc] ELSE ls
             ti1 == [ti EXCEPT !.codecs[i].layers = ls1]
         IN  IF i = 1 THEN [ti1 EXCEPT !.layers = ls1] ELSE ti1

\* SetLayerSsrc, lines 546-572: the first codec of the mime, its first layer
\* of the quality; quality is what lines 539-544 make of the rid
SetLayerSsrcInfo(ti, mime, quality, ssrc) ==
    LET i == CodecIndex(ti.codecs, mime) IN
    IF i = 0 THEN ti
    ELSE LET ls == ti.codecs[i].layers
             j == LayerIndex(ls, quality)
             ls1 == IF j # 0 /\ ls[j].ssrc = 0
                    THEN [ls EXCEPT ![j].ssrc = ssrc] ELSE ls
             ti1 == [ti EXCEPT !.codecs[i].layers = ls1]
         IN  IF i = 1 THEN [ti1 EXCEPT !.layers = ls1] ELSE ti1

\* strings.Contains(origin.MimeType, c.Codec), for mimes of the form video/x
\* and codec names without a slash
Contains(mime, codec) == codec = "" \/ mime = "video/" \o codec

\* UpdateCodecCid, lines 580-587, from the i-th entry of codecs on
RECURSIVE UpdateCodecCidInfo(_, _, _)
UpdateCodecCidInfo(ti, codecs, i) ==
    IF i > Len(codecs) THEN ti
    ELSE LET c == {k \in 1..Len(ti.codecs) :
                      Contains(ti.codecs[k].mimeType, codecs[i].codec)}
         IN  UpdateCodecCidInfo(
                 IF c = {} THEN ti
                 ELSE [ti EXCEPT !.codecs[Min(c)].cid = codecs[i].cid],
                 codecs, i + 1)

\* lines 609-618 and 648-655: a new layer takes the ssrc of the first existing
\* layer of its quality when that ssrc is not 0
KeepSsrc(layer, originLayers) ==
    LET j == LayerIndex(originLayers, layer.quality) IN
    IF j # 0 /\ originLayers[j].ssrc # 0
    THEN [layer EXCEPT !.ssrc = originLayers[j].ssrc]
    ELSE layer

PatchLayers(layers, originLayers) ==
    [j \in 1..Len(layers) |-> KeepSsrc(layers[j], originLayers)]

\* UpdateVideoLayers, lines 643-662
UpdateVideoLayersInfo(ti, layers) ==
    LET cs == [i \in 1..Len(ti.codecs) |->
                  [ti.codecs[i] EXCEPT !.layers = PatchLayers(layers, @)]]
    IN  [ti EXCEPT !.codecs = cs,
                   !.layers = IF cs # <<>> THEN cs[1].layers ELSE @]

\* UpdateTrackInfo, lines 600-620: a codec of the new info against the first
\* existing codec of its mime
PatchCodec(ci, originCodecs) ==
    LET i == CodecIndex(originCodecs, ci.mimeType) IN
    IF i = 0 THEN ci
    ELSE [ci EXCEPT !.mid = IF originCodecs[i].mid # ""
                            THEN originCodecs[i].mid ELSE @,
                    !.layers = PatchLayers(@, originCodecs[i].layers)]

\* UpdateTrackInfo keeping the mid but not the ssrc of the existing layers
UpdateTrackInfoMergeMidOnly(ti, new) ==
    LET cs == [i \in 1..Len(new.codecs) |->
                  LET k == CodecIndex(ti.codecs, new.codecs[i].mimeType) IN
                  IF k # 0 /\ ti.codecs[k].mid # ""
                  THEN [new.codecs[i] EXCEPT !.mid = ti.codecs[k].mid]
                  ELSE new.codecs[i]]
    IN  [new EXCEPT !.codecs = cs,
                    !.layers = IF cs # <<>> THEN cs[1].layers ELSE @]

\* UpdateTrackInfo, lines 595-630: the TrackInfo that replaces t.trackInfo
UpdateTrackInfoMerge(ti, new) ==
    LET cs == [i \in 1..Len(new.codecs) |-> PatchCodec(new.codecs[i], ti.codecs)]
    IN  [new EXCEPT !.codecs = cs,
                    !.layers = IF cs # <<>> THEN cs[1].layers ELSE @]

\* the steps of SetMuted after its locked section (lines 420-424), and those
\* of updateTrackInfoOfReceivers (lines 528-534)
SetMutedSteps == <<"MutedLoad", "MutedPaused", "MutedSubs">>
InfoSteps == <<"InfoClone", "InfoLoad", "InfoPush">>

Run(t, op, todo) ==
    [Idle EXCEPT !.at = "run", !.op = op, !.todo = todo, !.base = Len(calls)]

\* the thread after the step at the head of its todo list: the next step, or
\* the return of the method
Rest(p) == IF Len(p.todo) = 1 THEN Idle ELSE [p EXCEPT !.todo = Tail(@)]
Phase(p) == IF Len(p.todo) = 1 THEN "ret" ELSE "step"
AtStep(t, name) == pc[t].at = "run" /\ Head(pc[t].todo) = name

\* SetMuted, lines 416-418
SetMuted(t, muted) ==
    /\ Begin(t)
    /\ trackInfo' = [trackInfo EXCEPT !.muted = muted]
    /\ pc' = [pc EXCEPT ![t] = [Run(t, "SetMuted", SetMutedSteps)
                                  EXCEPT !.muted = muted]]
    /\ ev' = Event(t, "SetMuted", "step", "", 0)
    /\ UNCHANGED <<state, receivers, slots, potentialCodecs, hookVars, subVars,
                   histVars, callVars>>

\* SetMuted called by UpdateTrackInfo (line 634): lines 416-418
MutedLock(t) ==
    /\ AtStep(t, "MutedLock")
    /\ trackInfo' = [trackInfo EXCEPT !.muted = pc[t].muted]
    /\ pc' = [pc EXCEPT ![t] = Rest(@)]
    /\ ev' = Event(t, pc[t].op, Phase(pc[t]), "MutedLock", 0)
    /\ UNCHANGED <<state, receivers, slots, potentialCodecs, hookVars, subVars,
                   histVars, callVars, ops>>

\* SetMuted, line 420, and updateTrackInfoOfReceivers, line 532:
\* t.loadReceivers()
LoadReceivers(t, name) ==
    /\ AtStep(t, name)
    /\ pc' = [pc EXCEPT ![t] = Rest([@ EXCEPT !.recvs = receivers,
                                              !.live = TRUE])]
    /\ ev' = Event(t, pc[t].op, Phase(pc[t]), name, 0)
    /\ UNCHANGED <<state, slotVars, hookVars, subVars, histVars, callVars, ops>>

MutedLoad(t) == LoadReceivers(t, "MutedLoad")

\* SetMuted, lines 420-422: receiver.SetUpTrackPaused(muted) for every
\* receiver loaded
MutedPaused(t) ==
    /\ AtStep(t, "MutedPaused")
    /\ calls' = calls \o [k \in 1..Len(pc[t].recvs) |->
                             [to |-> pc[t].recvs[k], op |-> "SetUpTrackPaused",
                              muted |-> pc[t].muted]]
    /\ pc' = [pc EXCEPT ![t] = Rest(@)]
    /\ ev' = Event(t, pc[t].op, Phase(pc[t]), "MutedPaused", 0)
    /\ UNCHANGED <<state, slotVars, hookVars, subVars, histVars, lock, ops>>

\* SetMuted, line 424: t.MediaTrackSubscriptions.SetMuted(muted)
MutedSubs(t) ==
    /\ AtStep(t, "MutedSubs")
    /\ calls' = Append(calls, [to |-> 0, op |-> "SetMuted",
                               muted |-> pc[t].muted])
    /\ pc' = [pc EXCEPT ![t] = Rest(@)]
    /\ ev' = Event(t, pc[t].op, Phase(pc[t]), "MutedSubs", 0)
    /\ UNCHANGED <<state, slotVars, hookVars, subVars, histVars, lock, ops>>

\* updateTrackInfoOfReceivers, lines 528-530: the clone taken under RLock
InfoClone(t) ==
    /\ AtStep(t, "InfoClone")
    /\ pc' = [pc EXCEPT ![t] = Rest([@ EXCEPT !.ti = trackInfo])]
    /\ ev' = Event(t, pc[t].op, Phase(pc[t]), "InfoClone", 0)
    /\ UNCHANGED <<state, slotVars, hookVars, subVars, histVars, callVars, ops>>

InfoLoad(t) == LoadReceivers(t, "InfoLoad")

\* updateTrackInfoOfReceivers, lines 532-534: r.UpdateTrackInfo(ti) for every
\* receiver loaded
InfoPush(t) ==
    /\ AtStep(t, "InfoPush")
    /\ calls' = calls \o [k \in 1..Len(pc[t].recvs) |->
                             [to |-> pc[t].recvs[k], op |-> "UpdateTrackInfo",
                              ti |-> pc[t].ti]]
    /\ pc' = [pc EXCEPT ![t] = Rest(@)]
    /\ ev' = Event(t, pc[t].op, Phase(pc[t]), "InfoPush", 0)
    /\ UNCHANGED <<state, slotVars, hookVars, subVars, histVars, lock, ops>>

\* UpdateVideoLayers, line 666: t.MediaTrackSubscriptions.UpdateVideoLayers()
SubsUpdateVideoLayers(t) ==
    /\ AtStep(t, "SubsUpdateVideoLayers")
    /\ calls' = Append(calls, [to |-> 0, op |-> "UpdateVideoLayers"])
    /\ pc' = [pc EXCEPT ![t] = Rest(@)]
    /\ ev' = Event(t, pc[t].op, Phase(pc[t]), "SubsUpdateVideoLayers", 0)
    /\ UNCHANGED <<state, slotVars, hookVars, subVars, histVars, lock, ops>>

\* the locked section of a method that rewrites TrackInfo and then runs todo
InfoLocked(t, op, ti, todo) ==
    /\ Begin(t)
    /\ trackInfo' = ti
    /\ pc' = [pc EXCEPT ![t] = Run(t, op, todo)]
    /\ ev' = Event(t, op, "step", "", 0)
    /\ UNCHANGED <<state, receivers, slots, potentialCodecs, hookVars, subVars,
                   histVars, callVars>>

\* SetLayerSsrc, lines 537-576
SetLayerSsrc(t, mime, quality, ssrc) ==
    InfoLocked(t, "SetLayerSsrc",
               SetLayerSsrcInfo(trackInfo, mime, quality, ssrc), InfoSteps)

\* UpdateCodecCid, lines 578-591
UpdateCodecCid(t, codecs) ==
    InfoLocked(t, "UpdateCodecCid",
               UpdateCodecCidInfo(trackInfo, codecs, 1), InfoSteps)

\* UpdateVideoLayers, lines 640-667
UpdateVideoLayers(t, layers) ==
    InfoLocked(t, "UpdateVideoLayers",
               UpdateVideoLayersInfo(trackInfo, layers),
               InfoSteps \o <<"SubsUpdateVideoLayers">>)

\* UpdateTrackInfo, lines 593-638
UpdateTrackInfo(t, ti) ==
    LET updateMute == trackInfo.muted # ti.muted IN
    /\ Begin(t)
    /\ trackInfo' = UpdateTrackInfoMerge(trackInfo, ti)
    /\ pc' = [pc EXCEPT ![t] =
                 [Run(t, "UpdateTrackInfo",
                      IF updateMute
                      THEN <<"MutedLock">> \o SetMutedSteps \o InfoSteps
                      ELSE InfoSteps)
                    EXCEPT !.muted = ti.muted, !.updateMute = updateMute]]
    /\ ev' = Event(t, "UpdateTrackInfo", "step", "", 0)
    /\ UNCHANGED <<state, receivers, slots, potentialCodecs, hookVars, subVars,
                   histVars, callVars>>

-----------------------------------------------------------------------------
(* RevokeDisallowedSubscribers *)

\* the search of the allow-list stopping after its first entry
FoundFirstOnly(allowed, identity) == allowed # <<>> /\ allowed[1] = identity

\* RevokeDisallowedSubscribers, lines 506-512
Found(allowed, identity) == \E k \in 1..Len(allowed) : allowed[k] = identity

\* RevokeDisallowedSubscribers, line 505: the subscribed tracks are fetched
\* from the collaborator; with none the method returns at once (line 524)
RevokeDisallowedSubscribers(t, allowed) ==
    /\ Begin(t)
    /\ \E tracks \in SubscribedTracks(subscribed) :
          IF tracks = <<>>
          THEN /\ pc' = pc
               /\ ev' = EventRet(t, "RevokeDisallowedSubscribers", <<>>)
          ELSE /\ pc' = [pc EXCEPT ![t] =
                            [Idle EXCEPT !.at = "Revoke_loop",
                                         !.op = "RevokeDisallowedSubscribers",
                                         !.tracks = tracks, !.n = 1,
                                         !.allowed = allowed]]
               /\ ev' = Event(t, "RevokeDisallowedSubscribers", "step", "", 0)
    /\ UNCHANGED <<state, slotVars, hookVars, subVars, histVars, callVars>>

\* RevokeDisallowedSubscribers, lines 505-524: one subscribed track per step;
\* the method returns the identities collected after the last one
RevokeLoop(t) ==
    LET track == pc[t].tracks[pc[t].n]
        found == Found(pc[t].allowed, track.identity)
        revoked == IF found THEN pc[t].revoked
                   ELSE Append(pc[t].revoked, track.identity)
    IN
    /\ pc[t].at = "Revoke_loop"
    /\ IF found
       THEN UNCHANGED <<subscribed, removed>>
       ELSE /\ subscribed' = RemoveSubscriber(subscribed, track.sub)
            /\ removed' = Append(removed, [sub |-> track.sub, w |-> FALSE])
    /\ IF pc[t].n = Len(pc[t].tracks)
       THEN /\ pc' = [pc EXCEPT ![t] = Idle]
            /\ ev' = EventRet(t, "RevokeDisallowedSubscribers", revoked)
       ELSE /\ pc' = [pc EXCEPT ![t].n = @ + 1, ![t].revoked = revoked]
            /\ ev' = Event(t, "RevokeDisallowedSubscribers", "step", "", 0)
    /\ UNCHANGED <<state, slotVars, hookVars, added, histVars, callVars, ops>>

-----------------------------------------------------------------------------
(* Spec: two threads calling the lifecycle methods and the methods TryClose *)
(* and AddSubscriber depend on, in any interleaving                        *)

Call(t) ==
    \/ SetClosing(t)
    \/ AddOnClose(t, "f")
    \/ Close(t)
    \/ TryClose(t)
    \/ SetupReceiver(t, "video/VP8", 0, "m1")
    \/ SetPotentialCodecs(t, <<"video/VP8">>)
    \/ ClearAllReceivers(t, FALSE)
    \/ AddSubscriber(t, "s1")

Step(t) ==
    \/ CloseHook(t)
    \/ TryCloseClose(t)
    \/ ClearAllRemove(t)
    \/ AddSubscriberCall(t)

Next == \E t \in Threads : (ops < MaxOps /\ Call(t)) \/ Step(t)

Spec == Init /\ [][Next]_vars

-----------------------------------------------------------------------------
(* SpecSlots: one caller working on the slot list with every kind of input: *)
(* mimes that differ in case only, colliding priorities, empty and          *)
(* non-empty mid, any initial TrackInfo of InitTrackInfos                   *)

Priorities == {0, 1}
Mids == {"", "m1"}
CodecLists == { <<"video/VP8", "video/H264", "video/AV1">>,
                <<"video/vp8", "video/VP8">> }

InitTrackInfos ==
    { NewTrackInfo("", <<>>),
      NewTrackInfo("video/VP8", <<"video/VP8", "video/H264">>) }

InitSlots ==
    /\ state = mediaTrackReceiverStateOpen
    /\ receivers = <<>>
    /\ slots = <<>>
    /\ potentialCodecs = <<>>
    /\ trackInfo \in InitTrackInfos
    /\ onSetupReceiver = "nil"
    /\ onClose = <<>>
    /\ subscribed = <<>>
    /\ pc = [t \in Threads |-> Idle]
    /\ closeCalls = <<>>
    /\ setupCalls = <<>>
    /\ removed = <<>>
    /\ added = <<>>
    /\ regs = <<>>
    /\ calls = <<>>
    /\ lock = NoLock
    /\ ops = 0
    /\ ev = Event("", "", "", "", 0)

SlotCall(t) ==
    \/ \E m \in Mimes, p \in Priorities, mid \in Mids : SetupReceiver(t, m, p, mid)
    \/ \E codecs \in CodecLists : SetPotentialCodecs(t, codecs)
    \/ \E m \in Mimes : ClearReceiver(t, m, FALSE)
    \/ OnSetupReceiver(t, "f")
    \/ SetClosing(t)
    \/ Close(t)
    \/ AddSubscriber(t, "s1")

SlotStep(t) ==
    \/ SetupReceiverHook(t)
    \/ ClearRemove(t)
    \/ AddSubscriberCall(t)

NextSlots == (ops < SlotOps /\ SlotCall("t1")) \/ SlotStep("t1")

SpecSlots == InitSlots /\ [][NextSlots]_vars

-----------------------------------------------------------------------------
(* SpecSubs: one caller setting up and clearing receivers while subscribers *)
(* are added, removed by ClearReceiver / ClearAllReceivers and revoked      *)

SubMimes == {"video/VP8", "video/H264"}
Subscribers == {"s1", "s2"}
AllowLists == {<<>>, <<"bob">>, <<"alice", "bob">>}

SubCall(t) ==
    \/ \E m \in SubMimes : SetupReceiver(t, m, 0, "")
    \/ SetPotentialCodecs(t, <<"video/vp8", "video/H264">>)
    \/ \E sub \in Subscribers : AddSubscriber(t, sub)
    \/ \E m \in SubMimes, w \in BOOLEAN : ClearReceiver(t, m, w)
    \/ \E w \in BOOLEAN : ClearAllReceivers(t, w)
    \/ \E allowed \in AllowLists : RevokeDisallowedSubscribers(t, allowed)

SubStep(t) ==
    \/ AddSubscriberCall(t)
    \/ ClearRemove(t)
    \/ ClearAllRemove(t)
    \/ RevokeLoop(t)

NextSubs == (ops < SubOps /\ SubCall("t1")) \/ SubStep("t1")

SpecSubs == Init /\ [][NextSubs]_vars

-----------------------------------------------------------------------------
(* SpecInfo: one caller updating TrackInfo.  The track starts either with   *)
(* layers in every CodecInfo and the same layers at the top level, or as a  *)
(* publisher announces it: layers at the top level, none in the CodecInfos. *)

Layer(quality, ssrc) == [quality |-> quality, ssrc |-> ssrc]

Qualities == {0, 1}
Ssrcs == {5, 7}
InfoMimes == {"video/vp8", "video/H264", "video/AV1"}

InfoInits ==
    { [mimeType |-> "video/VP8", mid |-> "", muted |-> FALSE,
       layers |-> <<Layer(0, 0), Layer(1, 0)>>,
       codecs |-> << [NewCodecInfo("video/VP8") EXCEPT
                         !.layers = <<Layer(0, 0), Layer(1, 0)>>],
                     [NewCodecInfo("video/H264") EXCEPT
                         !.layers = <<Layer(0, 0)>>] >>],
      [NewTrackInfo("video/VP8", <<"video/VP8", "video/H264">>) EXCEPT
          !.layers = <<Layer(0, 0)>>] }

NewInfos ==
    { [mimeType |-> "video/vp8", mid |-> "", muted |-> FALSE, layers |-> <<>>,
       codecs |-> << [mimeType |-> "video/vp8", mid |-> "n1", cid |-> "",
                      layers |-> <<Layer(0, 9), Layer(1, 0)>>] >>],
      [mimeType |-> "video/H264", mid |-> "", muted |-> TRUE,
       layers |-> <<Layer(0, 0)>>,
       codecs |-> << [mimeType |-> "video/H264", mid |-> "", cid |-> "",
                      layers |-> <<Layer(0, 9)>>],
                     [mimeType |-> "video/VP8", mid |-> "n1", cid |-> "",
                      layers |-> <<Layer(1, 9)>>] >>] }

LayerLists == { <<Layer(0, 0), Layer(1, 0)>>, <<Layer(0, 9)>> }

InitInfo ==
    /\ state = mediaTrackReceiverStateOpen
    /\ receivers = <<>>
    /\ slots = <<>>
    /\ potentialCodecs = <<>>
    /\ trackInfo \in InfoInits
    /\ onSetupReceiver = "nil"
    /\ onClose = <<>>
    /\ subscribed = <<>>
    /\ pc = [t \in Threads |-> Idle]
    /\ closeCalls = <<>>
    /\ setupCalls = <<>>
    /\ removed = <<>>
    /\ added = <<>>
    /\ regs = <<>>
    /\ calls = <<>>
    /\ lock = NoLock
    /\ ops = 0
    /\ ev = Event("", "", "", "", 0)

InfoCall(t) ==
    \/ \E m \in InfoMimes, q \in Qualities, ssrc \in Ssrcs :
          SetLayerSsrc(t, m, q, ssrc)
    \/ UpdateCodecCid(t, <<[codec |-> "VP8", cid |-> "c1"]>>)
    \/ \E layers \in LayerLists : UpdateVideoLayers(t, layers)
    \/ \E ti \in NewInfos : UpdateTrackInfo(t, ti)
    \/ \E p \in Priorities : SetupReceiver(t, "video/H264", p, "m1")

InfoStep(t) ==
    \/ MutedLock(t)
    \/ MutedLoad(t)
    \/ MutedPaused(t)
    \/ MutedSubs(t)
    \/ InfoClone(t)
    \/ InfoLoad(t)
    \/ InfoPush(t)
    \/ SubsUpdateVideoLayers(t)

NextInfo == (ops < InfoOps /\ InfoCall("t1")) \/ InfoStep("t1")

SpecInfo == InitInfo /\ [][NextInfo]_vars

-----------------------------------------------------------------------------
(* SpecMute: two threads; SetMuted(true) runs while receivers are set up    *)

MuteCall(t) ==
    \/ SetMuted(t, TRUE)
    \/ SetupReceiver(t, "video/VP8", 0, "")
    \/ SetPotentialCodecs(t, <<"video/VP8", "video/H264">>)

MuteStep(t) ==
    \/ MutedLoad(t)
    \/ MutedPaused(t)
    \/ MutedSubs(t)

NextMute == \E t \in Threads : (ops < MuteOps /\ MuteCall(t)) \/ MuteStep(t)

SpecMute == Init /\ [][NextMute]_vars

-----------------------------------------------------------------------------
(* GetQualityForDimension.  For it TrackInfo also has kind, width and       *)
(* height, and every layer a height.                                        *)

\* livekit.VideoQuality: LOW = 0, MEDIUM = 1, HIGH = 2, OFF = 3
VideoQuality_HIGH == 2

\* line 743: uint32(float32(requestedSize) * layerSelectionTolerance), the
\* tolerance being 0.9 (line 42); for sizes below 2^23 the float32 product
\* truncates to the integer part of nine tenths of the size
Tolerance(size) == (size * 9) \div 10

\* lines 744-751, from index i (1-based) on: the quality is the 0-based index
\* at which the loop breaks
RECURSIVE Loop(_, _, _)
Loop(layerSizes, requestedSize, i) ==
    IF i = Len(layerSizes) THEN i - 1
    ELSE IF layerSizes[i] >= requestedSize /\ layerSizes[i] # layerSizes[i + 1]
         THEN i - 1
         ELSE Loop(layerSizes, requestedSize, i + 1)

\* lines 736-738: sort.Slice with < on the sizes, as an insertion sort
RECURSIVE SortSizes(_)
SortSizes(sizes) ==
    IF sizes = <<>> THEN <<>>
    ELSE LET rest == SortSizes(Tail(sizes))
             x == Head(sizes)
             k == Cardinality({i \in 1..Len(rest) : rest[i] <= x})
         IN  SubSeq(rest, 1, k) \o <<x>> \o SubSeq(rest, k + 1, Len(rest))

\* lines 708-753
QualityForDimension(ti, width, height) ==
    IF ti.kind = "audio" THEN VideoQuality_HIGH
    ELSE IF ti.height = 0 THEN VideoQuality_HIGH
    ELSE LET portrait == ti.width < ti.height
             origSize == IF portrait THEN ti.width ELSE ti.height
             providedSizes == [i \in 1..Len(ti.layers) |-> ti.layers[i].height]
             layerSizes == IF Len(providedSizes) > 0
                           THEN SortSizes(providedSizes)
                           ELSE <<180, 360, origSize>>
             requestedSize == IF Len(providedSizes) > 0 THEN height
                              ELSE IF portrait THEN width ELSE height
         IN  Loop(layerSizes, Tolerance(requestedSize), 1)

\* GetQualityForDimension, lines 707-754
GetQualityForDimension(t, width, height) ==
    /\ Begin(t)
    /\ ev' = EventRet(t, "GetQualityForDimension",
                      QualityForDimension(trackInfo, width, height))
    /\ UNCHANGED <<state, slotVars, hookVars, subVars, pc, histVars, callVars>>

\* SpecQuality: GetQualityForDimension on tracks of both kinds, landscape,
\* portrait and without dimensions, with no, three, four, unsorted and
\* duplicate layers
LayerHeights ==
    { <<>>, <<180, 360, 720>>, <<360, 360, 720>>, <<720, 180, 360>>,
      <<90, 180, 360, 720>>, <<360>> }
Dimensions == { <<1280, 720>>, <<720, 1280>>, <<320, 240>>, <<0, 0>> }
ReqWidths == {320, 640, 1280}
ReqHeights == {180, 360, 720}

QualityInfos ==
    { [mimeType |-> "video/VP8", mid |-> "", muted |-> FALSE, codecs |-> <<>>,
       kind |-> kind, width |-> d[1], height |-> d[2],
       layers |-> [i \in 1..Len(hs) |->
                     [quality |-> i - 1, ssrc |-> 0, height |-> hs[i]]]] :
      kind \in {"audio", "video"}, d \in Dimensions, hs \in LayerHeights }

InitQuality ==
    /\ state = mediaTrackReceiverStateOpen
    /\ receivers = <<>>
    /\ slots = <<>>
    /\ potentialCodecs = <<>>
    /\ trackInfo \in QualityInfos
    /\ onSetupReceiver = "nil"
    /\ onClose = <<>>
    /\ subscribed = <<>>
    /\ pc = [t \in Threads |-> Idle]
    /\ closeCalls = <<>>
    /\ setupCalls = <<>>
    /\ removed = <<>>
    /\ added = <<>>
    /\ regs = <<>>
    /\ calls = <<>>
    /\ lock = NoLock
    /\ ops = 0
    /\ ev = Event("", "", "", "", 0)

NextQuality ==
    /\ ops < QualityOps
    /\ \E w \in ReqWidths, h \in ReqHeights : GetQualityForDimension("t1", w, h)

SpecQuality == InitQuality /\ [][NextQuality]_vars

-----------------------------------------------------------------------------
(* SpecFan: two threads changing muted and TrackInfo of a track with a slot *)

FanCall(t) ==
    \/ SetupReceiver(t, "video/VP8", 0, "")
    \/ \E muted \in BOOLEAN : SetMuted(t, muted)
    \/ \E ti \in NewInfos : UpdateTrackInfo(t, ti)
    \/ \E ssrc \in Ssrcs : SetLayerSsrc(t, "video/vp8", 1, ssrc)
    \/ UpdateCodecCid(t, <<[codec |-> "VP8", cid |-> "c1"]>>)

FanStep(t) ==
    \/ MutedLock(t)
    \/ MutedLoad(t)
    \/ MutedPaused(t)
    \/ MutedSubs(t)
    \/ InfoClone(t)
    \/ InfoLoad(t)
    \/ InfoPush(t)

NextFan == \E t \in Threads : (ops < FanOps /\ FanCall(t)) \/ FanStep(t)

SpecFan == Init /\ [][NextFan]_vars

-----------------------------------------------------------------------------
(* SpecSort: only SetupReceiver and SetPotentialCodecs, with a codec list   *)
(* long enough for the slot list to reach seven slots                       *)

SortMimes == {"video/VP8", "video/H264", "video/VP9"}
SortCodecs == <<"video/VP8", "video/H264", "video/AV1", "video/H265",
                "video/red", "video/ulpfec">>

SortCall(t) ==
    \/ \E m \in SortMimes, p \in Priorities : SetupReceiver(t, m, p, "")
    \/ SetPotentialCodecs(t, SortCodecs)

NextSort == ops < SortOps /\ SortCall("t1")

SpecSort == Init /\ [][NextSort]_vars

-----------------------------------------------------------------------------
(* Properties of the lifecycle (checked under Spec) *)

Invoked(h) == \E i \in 1..Len(closeCalls) : closeCalls[i].hook = h

InCloseStep(t) ==
    \/ pc[t].at = "idle" /\ ops' = ops + 1 /\ ev'.t = t /\ ev'.op = "Close"
    \/ pc[t].at = "TryClose_close" /\ pc'[t].at # "TryClose_close"

\* C1: the lifecycle state only moves forward along Open -> Closing -> Closed:
\* SetClosing changes it only from Open to Closing, the locked section of Close
\* leaves it Closed whatever it was, and no step of any thread lowers it or
\* moves it in any other way.
C1_StateMonotone ==
    [][ /\ state' >= state
        /\ state' # state =>
              \/ /\ ev'.op = "SetClosing"
                 /\ state = mediaTrackReceiverStateOpen
                 /\ state' = mediaTrackReceiverStateClosing
              \/ /\ ev'.op \in {"Close", "TryClose"}
                 /\ state' = mediaTrackReceiverStateClosed
        /\ \A t \in Threads : InCloseStep(t) =>
              state' = mediaTrackReceiverStateClosed ]_vars

\* C1 witness: SetClosing was called on a Closed track and left it Closed
C1_Witness ==
    /\ ev.op = "SetClosing"
    /\ state = mediaTrackReceiverStateClosed

\* C2: every on_close hook registered before the track became Closed is
\* invoked at most once, the invocations follow the registration order, none
\* happens while the state is Open or Closing, no hook registered after the
\* close is invoked by a later close call, and once the closing call is out of
\* its hook loop every hook registered before the close has been invoked.
C2_HooksOnceInOrder ==
    /\ Len(closeCalls) <= Len(onClose)
    /\ \A i \in 1..Len(closeCalls) :
          /\ closeCalls[i].hook = onClose[i]
          /\ closeCalls[i].st = mediaTrackReceiverStateClosed
          /\ regs[closeCalls[i].hook] # mediaTrackReceiverStateClosed
    /\ Cardinality({t \in Threads : pc[t].at = "Close_hooks"}) <= 1
    /\ (state = mediaTrackReceiverStateClosed
        /\ \A t \in Threads : pc[t].at # "Close_hooks")
       => \A h \in 1..Len(onClose) :
             regs[h] # mediaTrackReceiverStateClosed => Invoked(h)

\* C2 witness: two hooks have run, and a later close call has returned without
\* running anything
C2_Witness ==
    /\ Len(closeCalls) = 2
    /\ ev.op \in {"Close", "TryClose"}
    /\ ev.val = "already"

\* C3 (as claimed): whenever a call to Close returns, to whichever caller,
\* every on_close hook registered before the track became Closed has completed.
C3_Original ==
    (ev.op = "Close" /\ ev.ph = "ret")
       => \A h \in 1..Len(onClose) :
             regs[h] # mediaTrackReceiverStateClosed => Invoked(h)

\* C3 (amended): when the Close or TryClose call that moved the state to Closed
\* returns, every hook registered before that transition has completed; a call
\* that found the state already Closed returns at once and promises nothing.
C3_ClosingCallRunsHooks ==
    (ev.op \in {"Close", "TryClose"} /\ ev.ph = "ret" /\ ev.val = "closed")
       => \A h \in 1..Len(onClose) :
             regs[h] # mediaTrackReceiverStateClosed => Invoked(h)

\* C3 witness: the closing call returns after it has run two hooks
C3_Witness ==
    /\ ev.op = "Close" /\ ev.ph = "ret" /\ ev.val = "closed"
    /\ Len(closeCalls) = 2
    /\ Len(onClose) = 2

\* C4: TryClose returns true and changes nothing when the state is Closed;
\* when the state is not Closed and a slot of the list is a DummyReceiver with
\* a delegate it returns false and leaves state, hooks and slots alone; in
\* every other case it goes on to Close, and when it returns from there the
\* state is Closed and the result is true.
C4_TryClose ==
    /\ [][ \A t \in Threads :
             (pc[t].at = "idle" /\ ops' = ops + 1 /\ ev'.t = t
              /\ ev'.op = "TryClose")
             => IF state = mediaTrackReceiverStateClosed
                THEN /\ ev'.ph = "ret" /\ ev'.val = "true"
                     /\ pc'[t].at = "idle"
                     /\ UNCHANGED <<state, slotVars, hookVars, closeCalls>>
                ELSE IF \E i \in 1..Len(receivers) :
                           /\ slots[receivers[i]].dummy
                           /\ slots[receivers[i]].recv # NoReceiver
                THEN /\ ev'.ph = "ret" /\ ev'.val = "false"
                     /\ pc'[t].at = "idle"
                     /\ UNCHANGED <<state, slotVars, hookVars, closeCalls>>
                ELSE /\ ev'.ph = "step"
                     /\ pc'[t].at = "TryClose_close" ]_vars
    /\ [](ev.op = "TryClose" /\ ev.ph = "ret" /\ ev.val # "false"
            => state = mediaTrackReceiverStateClosed)
    /\ [](\A t \in Threads : pc[t].at = "Close_hooks"
            => state = mediaTrackReceiverStateClosed)

\* C4 witness: a Dummy was seeded and upgraded, the list was then cleared, and
\* TryClose has closed the track and run a hook
C4_Witness ==
    /\ ev.op = "TryClose" /\ ev.ph = "ret" /\ ev.val = "closed"
    /\ state = mediaTrackReceiverStateClosed
    /\ receivers = <<>>
    /\ \E s \in 1..Len(slots) : slots[s].dummy /\ slots[s].recv # NoReceiver
    /\ closeCalls # <<>>

\* C5: AddSubscriber returns NotOpen whenever the state is not Open, whatever
\* the slot list holds; in state Open it returns NoReceiver exactly when the
\* list is empty; in both cases the collaborator is not called; otherwise the
\* collaborator is called once and its result is what AddSubscriber returns.
C5_AddSubscriber ==
    /\ [][ \A t \in Threads :
             (pc[t].at = "idle" /\ ops' = ops + 1 /\ ev'.t = t
              /\ ev'.op = "AddSubscriber")
             => IF state # mediaTrackReceiverStateOpen
                THEN /\ ev'.ph = "ret" /\ ev'.val = "NotOpen"
                     /\ pc'[t].at = "idle"
                     /\ UNCHANGED subVars
                ELSE IF receivers = <<>>
                THEN /\ ev'.ph = "ret" /\ ev'.val = "NoReceiver"
                     /\ pc'[t].at = "idle"
                     /\ UNCHANGED subVars
                ELSE /\ ev'.ph = "step"
                     /\ pc'[t].at = "AddSubscriber_call"
                     /\ UNCHANGED subVars ]_vars
    /\ [][ \A t \in Threads :
             (pc[t].at = "AddSubscriber_call" /\ pc'[t].at # "AddSubscriber_call")
             => /\ Len(added') = Len(added) + 1
                /\ added'[Len(added')].sub = pc[t].sub
                /\ ev'.op = "AddSubscriber" /\ ev'.ph = "ret"
                /\ ev'.val = added'[Len(added')].res
                /\ pc'[t].at = "idle" ]_vars
    /\ [][ added' # added =>
             \E t \in Threads : pc[t].at = "AddSubscriber_call" ]_vars

\* C5 witness: AddSubscriber has returned NotOpen on a closing track that
\* holds a slot, after an earlier call went through to the collaborator
C5_Witness ==
    /\ ev.op = "AddSubscriber" /\ ev.val = "NotOpen"
    /\ state = mediaTrackReceiverStateClosing
    /\ receivers # <<>>
    /\ added # <<>>

-----------------------------------------------------------------------------
(* Properties of the slot list (checked under SpecSlots and SpecSort) *)

SlotMime(i) == Codec(slots[receivers[i]])

SortedByPriority ==
    \A i, j \in 1..Len(receivers) :
        i < j => slots[receivers[i]].priority <= slots[receivers[j]].priority

\* a SetupReceiver call made in this step
SetupStep == ops' = ops + 1 /\ ev'.op = "SetupReceiver"

\* C6: SetupReceiver called while the state is Closing or Closed returns
\* without effect: slot list, slot objects (so every Dummy's delegate),
\* TrackInfo and potential codecs are unchanged, and the on_setup_receiver
\* hook is neither invoked nor left to be invoked.
C6_SetupNotOpenNoEffect ==
    [][ (SetupStep /\ state # mediaTrackReceiverStateOpen)
          => /\ UNCHANGED <<state, receivers, slots, trackInfo, potentialCodecs,
                            setupCalls>>
             /\ ev'.ph = "ret"
             /\ pc'[ev'.t].at = "idle" ]_vars

\* C6 witness: SetupReceiver has returned on a Closing track that has a hook
\* set and holds a Dummy that was never upgraded
C6_Witness ==
    /\ ev.op = "SetupReceiver" /\ ev.val = "notopen"
    /\ state = mediaTrackReceiverStateClosing
    /\ onSetupReceiver = "f"
    /\ \E i \in 1..Len(receivers) :
          slots[receivers[i]].dummy /\ slots[receivers[i]].recv = NoReceiver

C8_Original ==
    \A i, j \in 1..Len(receivers) : i # j => ~EqualFold(SlotMime(i), SlotMime(j))

\* C9: SetupReceiver on an Open track whose receiver matches a
\* Dummy that has no delegate yet makes the receiver the Dummy's delegate,
\* keeps the number of slots, and the slot keeps its priority and its position
\* in the list; the snapshots held by subscribers are untouched.
C9_Original ==
    [][ (SetupStep /\ ev'.val = "upgrade" /\ slots[ev'.slot].recv = NoReceiver)
          => /\ slots'[ev'.slot].dummy
             /\ slots'[ev'.slot].recv.id = ops'
             /\ Len(receivers') = Len(receivers)
             /\ Len(slots') = Len(slots)
             /\ slots'[ev'.slot].priority = slots[ev'.slot].priority
             /\ \A i \in 1..Len(receivers) :
                   receivers[i] = ev'.slot => receivers'[i] = ev'.slot
             /\ subscribed' = subscribed ]_vars

\* C10: each DummyReceiver is upgraded at most once: once a Dummy
\* has a real delegate, no later step upgrades it again or replaces that
\* delegate with another receiver.
C10_Original ==
    [][ \A s \in 1..Len(slots) :
          (slots[s].dummy /\ slots[s].recv # NoReceiver)
             => /\ slots'[s].recv = slots[s].recv
                /\ slots'[s].upgrades = slots[s].upgrades ]_vars

-----------------------------------------------------------------------------
(* Properties of SetupReceiver's TrackInfo update and of SetPotentialCodecs *)
(* (checked under SpecSlots)                                                *)

InList(list, x) == \E k \in 1..Len(list) : list[k] = x

\* C11: SetupReceiver(receiver, p, mid) on an Open track with a non-empty mid
\* gives the CodecInfo at index p, when there is one, the receiver's mime and
\* the mid, leaves every other CodecInfo and every other field as it was, and
\* overwrites the top-level mime and mid exactly when p = 0; with an empty mid
\* TrackInfo is left entirely unchanged.
C11_SetupTrackInfo ==
    [][ \A m \in Mimes, p \in Priorities, mid \in Mids :
          (/\ state = mediaTrackReceiverStateOpen
           /\ ev'.op = "SetupReceiver"
           /\ SetupReceiver("t1", m, p, mid))
             => IF mid = ""
                THEN trackInfo' = trackInfo
                ELSE /\ Len(trackInfo'.codecs) = Len(trackInfo.codecs)
                     /\ \A i \in 1..Len(trackInfo.codecs) :
                           IF i = p + 1
                           THEN trackInfo'.codecs[i] =
                                   [trackInfo.codecs[i] EXCEPT !.mimeType = m,
                                                               !.mid = mid]
                           ELSE trackInfo'.codecs[i] = trackInfo.codecs[i]
                     /\ trackInfo'.mimeType = IF p = 0 THEN m ELSE trackInfo.mimeType
                     /\ trackInfo'.mid = IF p = 0 THEN mid ELSE trackInfo.mid
                     /\ trackInfo'.muted = trackInfo.muted
                     /\ trackInfo'.layers = trackInfo.layers ]_vars

\* C11 witness: after SetPotentialCodecs, a receiver set up with priority 0 and
\* a mid upgraded a Dummy and wrote its own spelling of the mime and the mid to
\* the top level and to the first CodecInfo, the second CodecInfo untouched
C11_Witness ==
    /\ ev.op = "SetupReceiver" /\ ev.val = "upgrade"
    /\ potentialCodecs # <<>>
    /\ trackInfo.mimeType = "video/vp8" /\ trackInfo.mid = "m1"
    /\ Len(trackInfo.codecs) = 2
    /\ trackInfo.codecs[1] = [NewCodecInfo("video/vp8") EXCEPT !.mid = "m1"]
    /\ trackInfo.codecs[2] = NewCodecInfo("video/H264")

\* the codecs of the list for which SetPotentialCodecs has to add a Dummy: no
\* slot of the list has the mime, nor has an earlier codec of the same list
Missing(codecs) ==
    {i \in 1..Len(codecs) :
        /\ \A k \in 1..Len(receivers) : ~EqualFold(codecs[i], SlotMime(k))
        /\ \A j \in 1..(i - 1) : ~EqualFold(codecs[i], codecs[j])}

\* C12: SetPotentialCodecs(codecs) stores codecs, leaves every slot object and
\* every slot of the list as it was, and adds exactly one Dummy without
\* delegate, of priority i (0-based), for each codec i whose mime neither a
\* slot of the list nor an earlier codec of codecs has; a second call with the
\* same codecs right after the first changes nothing.
C12_SetPotentialCodecs ==
    [][ \A codecs \in CodecLists :
          (ev'.op = "SetPotentialCodecs" /\ SetPotentialCodecs("t1", codecs))
             => /\ potentialCodecs' = codecs
                /\ \A s \in 1..Len(slots) : slots'[s] = slots[s]
                /\ \A k \in 1..Len(receivers) : InList(receivers', receivers[k])
                /\ Len(receivers') = Len(receivers) + Cardinality(Missing(codecs))
                /\ Len(slots') = Len(slots) + Cardinality(Missing(codecs))
                /\ \A i \in Missing(codecs) :
                      \E s \in (Len(slots) + 1)..Len(slots') :
                          /\ slots'[s] = NewDummyReceiver(codecs[i], i - 1)
                          /\ InList(receivers', s)
                /\ \A k1, k2 \in 1..Len(receivers') :
                      receivers'[k1] = receivers'[k2] => k1 = k2
                /\ (ev.op = "SetPotentialCodecs" /\ potentialCodecs = codecs)
                      => receivers' = receivers /\ slots' = slots ]_vars

\* C12 witness: SetPotentialCodecs found a real receiver and an upgraded Dummy
\* in the list and added one Dummy, of priority 2, for the third codec only
C12_Witness ==
    /\ ev.op = "SetPotentialCodecs"
    /\ Len(receivers) = 3
    /\ \E k \in 1..3 : ~slots[receivers[k]].dummy
    /\ \E k \in 1..3 : /\ slots[receivers[k]].dummy
                        /\ slots[receivers[k]].recv # NoReceiver
    /\ \E k \in 1..3 : slots[receivers[k]] = NewDummyReceiver("video/AV1", 2)

-----------------------------------------------------------------------------
(* Properties of clearing, snapshots and revoking (checked under SpecSubs) *)

\* the remove_subscriber calls for the subscribers the collaborator reports
\* for the mime, each with will_be_resumed = w
RemovedFor(mime, w) ==
    LET S == SelectSeq(subscribed, LAMBDA x : EqualFold(x.mime, mime))
    IN  [i \in 1..Len(S) |-> [sub |-> S[i].sub, w |-> w]]

\* ClearReceiver(mime, w), under the lock: no slot of that mime is left, every
\* other slot is kept, and the collaborator is not called yet
C13_Clear ==
    \A m \in SubMimes, w \in BOOLEAN :
       ClearReceiver("t1", m, w)
          => /\ \A k \in 1..Len(receivers') :
                   ~EqualFold(Codec(slots[receivers'[k]]), m)
             /\ \A k \in 1..Len(receivers) :
                   ~EqualFold(SlotMime(k), m) => InList(receivers', receivers[k])
             /\ \A k \in 1..Len(receivers') : InList(receivers, receivers'[k])
             /\ removed' = removed
             /\ pc'["t1"].at = "Clear_remove"
             /\ pc'["t1"].mimes = <<m>> /\ pc'["t1"].w = w

\* ClearReceiver, after the lock: remove_subscriber(id, w) for every subscriber
\* of the mime, with the caller's w
C13_Remove ==
    pc["t1"].at = "Clear_remove"
       => /\ removed' = removed \o RemovedFor(pc["t1"].mimes[1], pc["t1"].w)
          /\ receivers' = receivers
          /\ pc'["t1"].at = "idle"

\* ClearAllReceivers(w): the list is left empty under the lock, and after it
\* the same removal is made for the mime of every slot that was in the list
C13_ClearAll ==
    /\ \A w \in BOOLEAN :
          ClearAllReceivers("t1", w)
             => /\ receivers' = <<>>
                /\ removed' = removed
                /\ receivers # <<>>
                      => /\ pc'["t1"].at = "ClearAll_remove"
                         /\ pc'["t1"].recvs = receivers /\ pc'["t1"].w = w
    /\ pc["t1"].at = "ClearAll_remove"
          => /\ removed' = removed \o
                   RemovedFor(Codec(slots[pc["t1"].recvs[1]]), pc["t1"].w)
             /\ receivers' = receivers
             /\ IF Len(pc["t1"].recvs) = 1
                THEN pc'["t1"].at = "idle"
                ELSE /\ pc'["t1"].at = "ClearAll_remove"
                     /\ pc'["t1"].recvs = Tail(pc["t1"].recvs)
                     /\ pc'["t1"].w = pc["t1"].w

\* C13: ClearReceiver(mime, w) removes every slot of that mime (ignoring case)
\* from the list and keeps all others, then, after the lock is released, calls
\* remove_subscriber(id, w) for every subscriber the collaborator reports for
\* the mime; ClearAllReceivers(w) leaves the list empty and does the same for
\* the mime of every slot it removed; w is always the caller's.
C13_Original == [][C13_Clear /\ C13_Remove /\ C13_ClearAll]_vars

\* C19: the slot sequence held by a subscriber's WrappedReceiver is the list
\* AddSubscriber captured, and no later step changes it, whatever is set up
\* or cleared afterwards.
C19_SnapshotImmutable ==
    [][ /\ \A i \in 1..Len(subscribed), j \in 1..Len(subscribed') :
              subscribed'[j].sub = subscribed[i].sub
                 => subscribed'[j].recvs = subscribed[i].recvs
        /\ (pc["t1"].at = "idle" /\ pc'["t1"].at = "AddSubscriber_call")
              => pc'["t1"].recvs = receivers
        /\ (pc["t1"].at = "AddSubscriber_call" /\ Len(subscribed') > Len(subscribed))
              => subscribed'[Len(subscribed')].recvs = pc["t1"].recvs ]_vars

\* C19 witness: ClearReceiver has returned and a subscriber of the other mime
\* still holds both slots while the list holds one
C19_Witness ==
    /\ ev.op = "ClearReceiver" /\ ev.ph = "ret"
    /\ Len(receivers) = 1
    /\ subscribed # <<>>
    /\ Len(subscribed[1].recvs) = 2
    /\ \E k \in 1..2 : subscribed[1].recvs[k] # receivers[1]

\* the subscribed tracks of the list whose identity is not in allowed
Disallowed(tracks, allowed) ==
    SelectSeq(tracks, LAMBDA x : ~InList(allowed, x.identity))

\* C20: RevokeDisallowedSubscribers(allowed) calls remove_subscriber(id, false)
\* exactly for the subscribed tracks whose identity is not in allowed, leaves
\* the others subscribed, and returns the identities it removed in the order
\* in which the collaborator listed the tracks; with every subscriber allowed
\* (or none subscribed) it removes nothing and returns an empty list.
C20_Revoke ==
    [][ /\ \A allowed \in AllowLists :
              RevokeDisallowedSubscribers("t1", allowed)
                 => /\ UNCHANGED <<subscribed, removed>>
                    /\ subscribed = <<>> => ev'.ph = "ret" /\ ev'.ret = <<>>
                    /\ subscribed # <<>>
                          => /\ pc'["t1"].allowed = allowed
                             /\ pc'["t1"].tracks \in SubscribedTracks(subscribed)
        /\ pc["t1"].at = "Revoke_loop"
              => LET track == pc["t1"].tracks[pc["t1"].n]
                     dis == Disallowed(pc["t1"].tracks, pc["t1"].allowed)
                 IN  /\ IF InList(pc["t1"].allowed, track.identity)
                        THEN UNCHANGED <<subscribed, removed>>
                        ELSE /\ removed' = Append(removed, [sub |-> track.sub,
                                                            w |-> FALSE])
                             /\ ~IsSubscribed(subscribed', track.sub)
                     /\ \A i \in 1..Len(subscribed) :
                           subscribed[i].sub # track.sub
                              => InList(subscribed', subscribed[i])
                     /\ pc'["t1"].at = "idle"
                           => /\ ev'.ph = "ret"
                              /\ ev'.ret = [i \in 1..Len(dis) |-> dis[i].identity]
                              /\ Len(removed') >= Len(dis)
                              /\ \A i \in 1..Len(dis) :
                                    removed'[Len(removed') - Len(dis) + i] =
                                       [sub |-> dis[i].sub, w |-> FALSE]
                              /\ \A i \in 1..Len(subscribed') :
                                    InList(pc["t1"].allowed, subscribed'[i].identity)
                     /\ pc'["t1"].at # "idle"
                           => /\ pc'["t1"].tracks = pc["t1"].tracks
                              /\ pc'["t1"].allowed = pc["t1"].allowed
                              /\ pc'["t1"].n = pc["t1"].n + 1 ]_vars

\* C20 witness: with two subscribers and only bob allowed, the call returned
\* alice alone and bob is still subscribed
C20_Witness ==
    /\ ev.op = "RevokeDisallowedSubscribers" /\ ev.ph = "ret"
    /\ ev.ret = <<"alice">>
    /\ Len(subscribed) = 1 /\ subscribed[1].identity = "bob"
    /\ removed = <<[sub |-> "s1", w |-> FALSE]>>

-----------------------------------------------------------------------------
(* SpecLock: the lock discipline.  Every method is the sequence of its      *)
(* operations on t.lock and of the calls it makes to hooks, collaborator,   *)
(* telemetry and receivers, one sequence per path through its body; pc[t]   *)
(* is the call stack of thread t, one frame per method entered, the last    *)
(* frame the innermost.  A callback may call back into any method.          *)

Callbacks ==
    {"onSetupReceiver", "onClose", "AddSubscriber", "RemoveSubscriber",
     "SetMuted", "UpdateVideoLayers", "TrackPublishedUpdate",
     "UpdateTrackInfo", "SetUpTrackPaused"}

\* lines 830-832
loadReceiversPath == <<"RLock", "RUnlock">>

\* lines 528-534
updateTrackInfoOfReceiversPath ==
    <<"RLock", "RUnlock">> \o loadReceiversPath \o <<"UpdateTrackInfo">>

\* lines 416-424
SetMutedPath ==
    <<"Lock", "Unlock">> \o loadReceiversPath
       \o <<"SetUpTrackPaused", "SetMuted">>

\* SetupReceiver calling the hook before it unlocks
SetupReceiverHookLocked ==
    { <<"Lock", "Unlock">>, <<"Lock", "onSetupReceiver", "Unlock">> }

\* lines 153-158 (not Open) and 153-214 (hook nil or set)
SetupReceiverPaths ==
    { <<"Lock", "Unlock">>, <<"Lock", "Unlock", "onSetupReceiver">> }

\* lines 332-336 (already Closed) and 332-344 (one or two hooks)
ClosePaths ==
    { <<"Lock", "Unlock">>, <<"Lock", "Unlock", "onClose">>,
      <<"Lock", "Unlock", "onClose", "onClose">> }

\* lines 313-328: TryClose calls Close after it has released the read lock
TryClosePaths ==
    { <<"RLock", "RUnlock">> } \cup { <<"RLock", "RUnlock">> \o p : p \in ClosePaths }

\* lines 594-637, without and with the call of SetMuted
UpdateTrackInfoPaths ==
    { <<"Lock", "Unlock">> \o updateTrackInfoOfReceiversPath,
      <<"Lock", "Unlock">> \o SetMutedPath \o updateTrackInfoOfReceiversPath }

\* the paths of the public methods
LockPaths ==
    [ Restart |-> { <<"RLock", "RUnlock">> \o loadReceiversPath },
      OnSetupReceiver |-> { <<"Lock", "Unlock">> },
      SetupReceiver |-> SetupReceiverPaths,
      SetPotentialCodecs |-> { <<"Lock", "Unlock">> },
      ClearReceiver |-> { <<"Lock", "Unlock">>,
                          <<"Lock", "Unlock", "RemoveSubscriber">> },
      ClearAllReceivers |-> { <<"Lock", "Unlock">>,
                              <<"Lock", "Unlock", "RemoveSubscriber">> },
      IsOpen |-> { <<"RLock", "RUnlock">> },
      SetClosing |-> { <<"Lock", "Unlock">> },
      TryClose |-> TryClosePaths,
      Close |-> ClosePaths,
      SetSimulcast |-> { <<"Lock", "Unlock">> },
      IsMuted |-> { <<"RLock", "RUnlock">> },
      SetMuted |-> { SetMutedPath },
      AddOnClose |-> { <<"Lock", "Unlock">> },
      AddSubscriber |-> { <<"RLock", "RUnlock">>,
                          <<"RLock", "RUnlock", "AddSubscriber">> },
      RemoveSubscriber |-> { <<"RemoveSubscriber">> },
      RevokeDisallowedSubscribers |-> { <<"RemoveSubscriber">> },
      SetLayerSsrc |-> { <<"Lock", "Unlock">> \o updateTrackInfoOfReceiversPath },
      UpdateCodecCid |-> { <<"Lock", "Unlock">> \o updateTrackInfoOfReceiversPath },
      UpdateTrackInfo |-> UpdateTrackInfoPaths,
      UpdateVideoLayers |-> { <<"Lock", "Unlock">> \o updateTrackInfoOfReceiversPath
                                 \o <<"UpdateVideoLayers">> },
      TrackInfo |-> { <<"RLock", "RUnlock">> },
      NotifyMaxLayerChange |-> { <<"RLock", "RUnlock", "TrackPublishedUpdate">> },
      PrimaryReceiver |-> { <<"RLock", "RUnlock">> },
      Receivers |-> { <<"RLock", "RUnlock">> } ]

AllPaths == UNION { LockPaths[m] : m \in DOMAIN LockPaths }

\* the instruction thread t is at: the head of its innermost frame
Active(t) == pc[t] # <<>>
At(t) == IF Active(t) THEN Head(pc[t][Len(pc[t])]) ELSE ""

\* sync.RWMutex: a thread blocked in Lock keeps new readers out
WriterWaiting == \E u \in Threads : At(u) = "Locking"
Reads(t) == \E k \in 1..Len(lock.r) : lock.r[k] = t
Holds(t) == lock.w = t \/ Reads(t)

\* the stack after the instruction at the head of the innermost frame: a
\* frame with nothing left returns to the callback that called it
Advance(stack) ==
    LET n == Len(stack)
        rest == Tail(stack[n])
    IN  IF rest = <<>> THEN SubSeq(stack, 1, n - 1)
        ELSE [stack EXCEPT ![n] = rest]

LockUnchanged ==
    UNCHANGED <<state, slotVars, hookVars, subVars, histVars, calls, ev>>

InitLock ==
    /\ state = mediaTrackReceiverStateOpen
    /\ receivers = <<>>
    /\ slots = <<>>
    /\ potentialCodecs = <<>>
    /\ trackInfo = NewTrackInfo("video/VP8", <<"video/VP8", "video/H264">>)
    /\ onSetupReceiver = "nil"
    /\ onClose = <<>>
    /\ subscribed = <<>>
    /\ pc = [t \in Threads |-> <<>>]
    /\ closeCalls = <<>>
    /\ setupCalls = <<>>
    /\ removed = <<>>
    /\ added = <<>>
    /\ regs = <<>>
    /\ calls = <<>>
    /\ lock = NoLock
    /\ ops = 0
    /\ ev = Event("", "", "", "", 0)

\* a thread calls a public method
LockCall(t) ==
    /\ ~Active(t)
    /\ ops < LockOps
    /\ \E p \in AllPaths : pc' = [pc EXCEPT ![t] = <<p>>]
    /\ ops' = ops + 1
    /\ UNCHANGED lock
    /\ LockUnchanged

\* a hook, collaborator, telemetry or receiver that is being called calls a
\* public method of the same track
Reenter(t) ==
    /\ At(t) \in Callbacks
    /\ Len(pc[t]) < LockDepth
    /\ ops < LockOps
    /\ \E p \in AllPaths : pc' = [pc EXCEPT ![t] = Append(@, p)]
    /\ ops' = ops + 1
    /\ UNCHANGED lock
    /\ LockUnchanged

\* the callback returns
Return(t) ==
    /\ At(t) \in Callbacks
    /\ pc' = [pc EXCEPT ![t] = Advance(@)]
    /\ UNCHANGED <<lock, ops>>
    /\ LockUnchanged

\* t.lock.Lock() is called ...
LockWait(t) ==
    /\ At(t) = "Lock"
    /\ pc' = [pc EXCEPT ![t][Len(pc[t])][1] = "Locking"]
    /\ UNCHANGED <<lock, ops>>
    /\ LockUnchanged

\* ... and returns when there is no writer and no reader
LockAcquire(t) ==
    /\ At(t) = "Locking"
    /\ lock.w = "" /\ lock.r = <<>>
    /\ lock' = [lock EXCEPT !.w = t]
    /\ pc' = [pc EXCEPT ![t] = Advance(@)]
    /\ UNCHANGED ops
    /\ LockUnchanged

\* t.lock.Unlock()
Unlock(t) ==
    /\ At(t) = "Unlock"
    /\ lock.w = t
    /\ lock' = [lock EXCEPT !.w = ""]
    /\ pc' = [pc EXCEPT ![t] = Advance(@)]
    /\ UNCHANGED ops
    /\ LockUnchanged

\* t.lock.RLock()
RLock(t) ==
    /\ At(t) = "RLock"
    /\ lock.w = "" /\ ~WriterWaiting
    /\ lock' = [lock EXCEPT !.r = Append(@, t)]
    /\ pc' = [pc EXCEPT ![t] = Advance(@)]
    /\ UNCHANGED ops
    /\ LockUnchanged

\* t.lock.RUnlock()
RUnlock(t) ==
    /\ At(t) = "RUnlock"
    /\ \E k \in 1..Len(lock.r) :
          /\ lock.r[k] = t
          /\ lock' = [lock EXCEPT !.r = SubSeq(@, 1, k - 1)
                                         \o SubSeq(@, k + 1, Len(@))]
    /\ pc' = [pc EXCEPT ![t] = Advance(@)]
    /\ UNCHANGED ops
    /\ LockUnchanged

NextLock ==
    \E t \in Threads :
       \/ LockCall(t)
       \/ Reenter(t)
       \/ Return(t)
       \/ LockWait(t)
       \/ LockAcquire(t)
       \/ Unlock(t)
       \/ RLock(t)
       \/ RUnlock(t)

SpecLock == InitLock /\ [][NextLock]_vars

-----------------------------------------------------------------------------
(* SpecRace: the accesses to the fields of the track.  A path is as in      *)
(* SpecLock, with the reads (R_field) and writes (W_field) the method makes *)
(* put where the source makes them; a thread at such an instruction is      *)
(* about to make the access.                                                *)

Fields ==
    {"receivers", "trackInfo", "potentialCodecs", "state", "onSetupReceiver",
     "onClose", "onMediaLossFeedback"}

Rd(f) == "R_" \o f
Wr(f) == "W_" \o f

\* lines 347-352 (ID), and alike Kind, Source, Stream, IsSimulcast, Name,
\* IsMuted, TrackInfo, TrackInfoClone, IsEncrypted
GetterPath == <<"RLock", "R_trackInfo", "RUnlock">>

\* lines 829-833, and alike PrimaryReceiver, Receiver, Receivers
loadReceiversAccess == <<"RLock", "R_receivers", "RUnlock">>

\* lines 527-535
updateTrackInfoOfReceiversAccess ==
    GetterPath \o loadReceiversAccess \o <<"UpdateTrackInfo">>

\* lines 415-425
SetMutedAccess ==
    <<"Lock", "W_trackInfo", "Unlock">> \o loadReceiversAccess
       \o <<"SetUpTrackPaused", "SetMuted">>

\* lines 331-345
CloseAccess ==
    { <<"Lock", "R_state", "Unlock">>,
      <<"Lock", "R_state", "W_state", "R_onClose", "Unlock", "onClose">> }

\* lines 438-486: the state test, the copies taken under the read lock, the
\* two calls of ID (lines 476, 479) and DisableRed read from t.trackInfo
\* (line 483) after the lock was released at line 448
AddSubscriberAccess ==
    { <<"RLock", "R_state", "RUnlock">>,
      <<"RLock", "R_state", "R_receivers", "R_potentialCodecs", "RUnlock">>,
      <<"RLock", "R_state", "R_receivers", "R_potentialCodecs", "RUnlock">>
         \o GetterPath \o GetterPath \o <<"R_trackInfo", "AddSubscriber">> }

RacePaths ==
    [ Restart |-> { GetterPath \o loadReceiversAccess },
      OnSetupReceiver |-> { <<"Lock", "W_onSetupReceiver", "Unlock">> },
      SetupReceiver |->
         { <<"Lock", "R_state", "Unlock">>,
           <<"Lock", "R_state", "R_receivers", "W_trackInfo", "W_receivers",
             "R_onSetupReceiver", "Unlock", "onSetupReceiver">> },
      SetPotentialCodecs |->
         { <<"Lock", "R_receivers", "W_potentialCodecs", "R_trackInfo",
             "W_receivers", "Unlock">> },
      ClearReceiver |->
         { <<"Lock", "R_receivers", "W_receivers", "Unlock", "RemoveSubscriber">> },
      ClearAllReceivers |->
         { <<"Lock", "R_receivers", "W_receivers", "Unlock", "RemoveSubscriber">> },
      OnMediaLossFeedback |-> { <<"W_onMediaLossFeedback">> },
      IsOpen |-> { <<"RLock", "R_state", "R_receivers", "RUnlock">> },
      SetClosing |-> { <<"Lock", "R_state", "W_state", "Unlock">> },
      TryClose |->
         { <<"RLock", "R_state", "R_receivers", "RUnlock">> }
         \cup { <<"RLock", "R_state", "R_receivers", "RUnlock">> \o p :
                   p \in CloseAccess },
      Close |-> CloseAccess,
      ID |-> { GetterPath },
      SetSimulcast |-> { <<"Lock", "W_trackInfo", "Unlock">> },
      SetMuted |-> { SetMutedAccess },
      AddOnClose |-> { <<"Lock", "R_onClose", "W_onClose", "Unlock">> },
      AddSubscriber |-> AddSubscriberAccess,
      SetLayerSsrc |->
         { <<"Lock", "R_trackInfo", "W_trackInfo", "Unlock">>
              \o updateTrackInfoOfReceiversAccess },
      UpdateCodecCid |->
         { <<"Lock", "R_trackInfo", "W_trackInfo", "Unlock">>
              \o updateTrackInfoOfReceiversAccess },
      UpdateTrackInfo |->
         { <<"Lock", "R_trackInfo", "W_trackInfo", "Unlock">>
              \o updateTrackInfoOfReceiversAccess,
           <<"Lock", "R_trackInfo", "W_trackInfo", "Unlock">>
              \o SetMutedAccess \o updateTrackInfoOfReceiversAccess },
      UpdateVideoLayers |->
         { <<"Lock", "R_trackInfo", "W_trackInfo", "Unlock">>
              \o updateTrackInfoOfReceiversAccess \o <<"UpdateVideoLayers">> },
      NotifyMaxLayerChange |-> { GetterPath \o <<"TrackPublishedUpdate">> },
      GetQualityForDimension |-> { GetterPath, GetterPath \o GetterPath },
      PrimaryReceiver |-> { loadReceiversAccess },
      \* lines 767-771: the receiver-report listener of a down track
      ReceiverReportListener |-> { <<"R_onMediaLossFeedback">> } ]

AllRacePaths == UNION { RacePaths[m] : m \in DOMAIN RacePaths }

RaceCall(t) ==
    /\ ~Active(t)
    /\ ops < RaceOps
    /\ \E p \in AllRacePaths : pc' = [pc EXCEPT ![t] = <<p>>]
    /\ ops' = ops + 1
    /\ UNCHANGED lock
    /\ LockUnchanged

\* the read or write is made
Access(t) ==
    /\ \E f \in Fields : At(t) \in {Rd(f), Wr(f)}
    /\ pc' = [pc EXCEPT ![t] = Advance(@)]
    /\ UNCHANGED <<lock, ops>>
    /\ LockUnchanged

NextRace ==
    \E t \in Threads :
       \/ RaceCall(t)
       \/ Access(t)
       \/ Return(t)
       \/ LockWait(t)
       \/ LockAcquire(t)
       \/ Unlock(t)
       \/ RLock(t)
       \/ RUnlock(t)

SpecRace == InitLock /\ [][NextRace]_vars

-----------------------------------------------------------------------------
(* Properties of the lock discipline (checked under SpecLock) *)

\* what thread t can do next
CanStep(t) ==
    \/ At(t) \in Callbacks \cup {"Lock", "Unlock", "RUnlock"}
    \/ At(t) = "Locking" /\ lock.w = "" /\ lock.r = <<>>
    \/ At(t) = "RLock" /\ lock.w = "" /\ ~WriterWaiting

\* C15: a thread that is invoking the onSetupReceiver hook, an onClose hook,
\* a collaborator call, the telemetry call or a receiver's UpdateTrackInfo or
\* SetUpTrackPaused holds neither the shared nor the exclusive lock; a thread
\* that asks for the lock, also from within such a call, never holds it
\* already, and whenever a thread is inside a method some thread can step.
C15_NoCallbackUnderLock ==
    /\ \A t \in Threads :
          /\ At(t) \in Callbacks => ~Holds(t)
          /\ At(t) \in {"Lock", "Locking", "RLock"} => ~Holds(t)
    /\ (\E t \in Threads : Active(t)) => \E t \in Threads : CanStep(t)

\* C15 witness: t1 is inside an onClose hook and, from within it, has called
\* a method that now holds the exclusive lock, while t2 waits in Lock
C15_Witness ==
    /\ Len(pc["t1"]) = 2
    /\ Head(pc["t1"][1]) = "onClose"
    /\ lock.w = "t1"
    /\ At("t2") = "Locking"

-----------------------------------------------------------------------------
(* Properties of SetMuted (checked under SpecMute) *)

Paused(slot, muted) == [to |-> slot, op |-> "SetUpTrackPaused", muted |-> muted]

\* C14: when SetMuted(true) returns, TrackInfo.muted is true, every slot that
\* is in the list at that moment has received SetUpTrackPaused(true) and the
\* collaborator has received SetMuted(true); TrackInfo is written first, then
\* the slots are called, then the collaborator, and the locked section makes
\* no call; SetupReceiver and SetPotentialCodecs may run concurrently.
C14_Original ==
    [][ \A t \in Threads :
          /\ SetMuted(t, TRUE) => trackInfo'.muted /\ calls' = calls
          /\ AtStep(t, "MutedPaused") => trackInfo.muted
          /\ (AtStep(t, "MutedSubs") /\ pc[t].op = "SetMuted" /\ pc[t].muted
              /\ pc'[t].at = "idle")
                => /\ trackInfo'.muted
                   /\ calls' = Append(calls, [to |-> 0, op |-> "SetMuted",
                                              muted |-> TRUE])
                   /\ \A k \in 1..Len(pc[t].recvs) :
                         \E c \in (pc[t].base + 1)..Len(calls) :
                            calls[c] = Paused(pc[t].recvs[k], TRUE)
                   /\ \A k \in 1..Len(receivers') :
                         \E c \in 1..Len(calls) :
                            calls[c] = Paused(receivers'[k], TRUE) ]_vars

-----------------------------------------------------------------------------
(* Properties of the TrackInfo updates (checked under SpecInfo) *)

\* the ssrc of the layer of that quality of the codec of that mime: the first
\* codec whose mime matches ignoring case, its first layer of the quality
HasLayer(ti, mime, quality) ==
    /\ CodecIndex(ti.codecs, mime) # 0
    /\ LayerIndex(ti.codecs[CodecIndex(ti.codecs, mime)].layers, quality) # 0

Ssrc(ti, mime, quality) ==
    IF HasLayer(ti, mime, quality)
    THEN LET ls == ti.codecs[CodecIndex(ti.codecs, mime)].layers
         IN  ls[LayerIndex(ls, quality)].ssrc
    ELSE 0

\* C16: after each of SetLayerSsrc, UpdateCodecCid, UpdateVideoLayers,
\* UpdateTrackInfo and SetupReceiver has completed on a track whose TrackInfo
\* has at least one CodecInfo, the top-level layers equal the layers of the
\* CodecInfo at index 0, whatever the initial TrackInfo and whatever mime
\* SetLayerSsrc names.
C16_Original ==
    (/\ ev.ph = "ret"
     /\ ev.op \in {"SetLayerSsrc", "UpdateCodecCid", "UpdateVideoLayers",
                   "UpdateTrackInfo", "SetupReceiver"}
     /\ Len(trackInfo.codecs) >= 1)
       => trackInfo.layers = trackInfo.codecs[1].layers

\* C17: for every codec mime and layer quality, once the ssrc of the layer is
\* not 0, no SetLayerSsrc, UpdateVideoLayers or UpdateTrackInfo that leaves a
\* layer for the same mime and quality changes it.
C17_SsrcKept ==
    [][ ev'.op \in {"SetLayerSsrc", "UpdateVideoLayers", "UpdateTrackInfo"}
          => \A m \in InfoMimes, q \in Qualities :
                (Ssrc(trackInfo, m, q) # 0 /\ HasLayer(trackInfo', m, q))
                   => Ssrc(trackInfo', m, q) = Ssrc(trackInfo, m, q) ]_vars

\* C17 witness: the H264 layer of quality 0 got ssrc 5, UpdateTrackInfo then
\* brought the muted info that carries ssrc 9 for it, and a SetLayerSsrc
\* followed: the layer still has 5
C17_Witness ==
    /\ ev.op = "SetLayerSsrc" /\ ev.ph = "ret"
    /\ trackInfo.muted
    /\ trackInfo.codecs[1].mimeType = "video/H264"
    /\ trackInfo.codecs[1].layers = <<Layer(0, 5)>>
    /\ trackInfo.layers = <<Layer(0, 5)>>

\* the mid UpdateTrackInfo leaves in a CodecInfo of the new info: the one of
\* the existing CodecInfo of its mime when that is not empty
KeptMid(ci) ==
    LET k == CodecIndex(trackInfo.codecs, ci.mimeType) IN
    IF k # 0 /\ trackInfo.codecs[k].mid # "" THEN trackInfo.codecs[k].mid
    ELSE ci.mid

\* C18 (as claimed): after UpdateTrackInfo(new) TrackInfo equals new, except
\* that a CodecInfo whose mime matches an existing one keeps the existing mid
\* when that is not empty.
C18_Original ==
    [][ \A new \in NewInfos :
          UpdateTrackInfo("t1", new)
             => trackInfo' =
                   [new EXCEPT !.codecs =
                       [i \in 1..Len(new.codecs) |->
                           [new.codecs[i] EXCEPT !.mid = KeptMid(new.codecs[i])]]]
      ]_vars

\* the calls UpdateTrackInfo has made when it returns: the mute fan-out when
\* muted changed, then UpdateTrackInfo(clone) to every slot
FanOut(updateMute) ==
    (IF updateMute
     THEN [k \in 1..Len(receivers) |-> Paused(receivers[k], trackInfo.muted)]
          \o <<[to |-> 0, op |-> "SetMuted", muted |-> trackInfo.muted]>>
     ELSE <<>>)
    \o [k \in 1..Len(receivers) |->
           [to |-> receivers[k], op |-> "UpdateTrackInfo", ti |-> trackInfo]]

\* C18 (amended): after UpdateTrackInfo(new) TrackInfo equals new, except that
\* a CodecInfo whose mime matches an existing one keeps the existing mid when
\* that is not empty, each of its layers keeps the ssrc of the existing layer
\* of its quality when that is not 0, and the top-level layers are those of
\* the first CodecInfo when there is one; the mute fan-out is run, with the new
\* value, if and only if muted differs from the previous one, and after it
\* every slot receives UpdateTrackInfo with a clone of the merged TrackInfo.
C18_UpdateTrackInfo ==
    [][ /\ \A new \in NewInfos :
              UpdateTrackInfo("t1", new)
                 => /\ trackInfo'.mimeType = new.mimeType
                    /\ trackInfo'.mid = new.mid
                    /\ trackInfo'.muted = new.muted
                    /\ Len(trackInfo'.codecs) = Len(new.codecs)
                    /\ \A i \in 1..Len(new.codecs) :
                          LET ci == new.codecs[i]
                              c1 == trackInfo'.codecs[i]
                          IN  /\ c1.mimeType = ci.mimeType
                              /\ c1.cid = ci.cid
                              /\ c1.mid = KeptMid(ci)
                              /\ Len(c1.layers) = Len(ci.layers)
                              /\ \A j \in 1..Len(ci.layers) :
                                    LET old == Ssrc(trackInfo, ci.mimeType,
                                                    ci.layers[j].quality)
                                    IN  c1.layers[j] =
                                           Layer(ci.layers[j].quality,
                                                 IF old # 0 THEN old
                                                 ELSE ci.layers[j].ssrc)
                    /\ trackInfo'.layers = IF new.codecs # <<>>
                                           THEN trackInfo'.codecs[1].layers
                                           ELSE new.layers
                    /\ calls' = calls
                    /\ pc'["t1"].updateMute = (trackInfo.muted # new.muted)
                    /\ pc'["t1"].base = Len(calls)
        /\ (pc["t1"].at = "run" /\ pc["t1"].op = "UpdateTrackInfo"
             /\ pc'["t1"].at = "idle")
              => /\ UNCHANGED <<trackInfo, receivers>>
                 /\ SubSeq(calls', pc["t1"].base + 1, Len(calls')) =
                       FanOut(pc["t1"].updateMute) ]_vars

\* C18 witness: UpdateTrackInfo has returned on a track with a slot; the H264
\* CodecInfo kept its mid m1 and its ssrc 5 where the new info carried 9, the
\* track became muted and the fan-out was made
C18_Witness ==
    /\ ev.op = "UpdateTrackInfo" /\ ev.ph = "ret"
    /\ receivers # <<>>
    /\ trackInfo.muted
    /\ trackInfo.codecs[1].mimeType = "video/H264"
    /\ trackInfo.codecs[1].mid = "m1"
    /\ trackInfo.codecs[1].layers = <<Layer(0, 5)>>
    /\ \E i \in 1..Len(calls) : calls[i] = [to |-> 0, op |-> "SetMuted",
                                            muted |-> TRUE]

-----------------------------------------------------------------------------
(* Properties of GetQualityForDimension (checked under SpecQuality) *)

LowMediumHigh == {0, 1, 2}

\* the k-th smallest of the values of a sequence
Ascending(sizes) ==
    [k \in 1..Len(sizes) |->
        CHOOSE v \in {sizes[i] : i \in 1..Len(sizes)} :
           /\ Cardinality({i \in 1..Len(sizes) : sizes[i] < v}) < k
           /\ Cardinality({i \in 1..Len(sizes) : sizes[i] <= v}) >= k]

\* the sizes the claim names
ClaimSizes(ti) ==
    IF ti.layers # <<>>
    THEN Ascending([i \in 1..Len(ti.layers) |-> ti.layers[i].height])
    ELSE <<180, 360, IF ti.width < ti.height THEN ti.width ELSE ti.height>>

ClaimIndex(sizes, target) ==
    Min({i \in 1..Len(sizes) :
            \/ i = Len(sizes)
            \/ sizes[i] >= target /\ sizes[i] # sizes[i + 1]})

\* C21: GetQualityForDimension returns high for an audio track and for a
\* track of height 0; otherwise, with sizes the ascending heights of the
\* layers, or [180, 360, orig] without layers, and target nine tenths of the
\* requested size rounded down, it returns the quality of the smallest index
\* that is the last one or whose size is at least target and differs from the
\* next; the result is always one of low, medium, high.  The requested size
\* is the height, and the width for a portrait track without layers.
C21_Original ==
    [][ \A w \in ReqWidths, h \in ReqHeights :
          GetQualityForDimension("t1", w, h)
             => /\ ev'.ret \in LowMediumHigh
                /\ IF trackInfo.kind = "audio" \/ trackInfo.height = 0
                   THEN ev'.ret = 2
                   ELSE LET req == IF /\ trackInfo.width < trackInfo.height
                                      /\ trackInfo.layers = <<>>
                                   THEN w ELSE h
                        IN  ev'.ret = ClaimIndex(ClaimSizes(trackInfo),
                                                 (req * 9) \div 10) - 1 ]_vars

-----------------------------------------------------------------------------
(* Properties of the field accesses (checked under SpecRace) *)

\* C22: every read of a field of the track is made with the lock held, shared
\* or exclusive, and every write with the exclusive lock held,
\* onMediaLossFeedback included; no thread is about to write a field while
\* another is about to read or write it.
C22_Original ==
    \A f \in Fields : \A t \in Threads :
       /\ At(t) = Rd(f) => Holds(t)
       /\ At(t) = Wr(f) => lock.w = t
       /\ At(t) = Wr(f) =>
             \A u \in Threads \ {t} : At(u) \notin {Rd(f), Wr(f)}

-----------------------------------------------------------------------------
(* Order of the slot list after ClearReceiver (checked under SpecSlots) *)

\* C23: the slot list is in non-decreasing priority order in every state, and
\* a ClearReceiver that removes one slot from a list of three or more leaves
\* the remaining slots in their relative order.
C23_Original ==
    [][ /\ SortedByPriority'
        /\ (/\ ev'.op = "ClearReceiver" /\ ops' = ops + 1
            /\ Len(receivers) >= 3
            /\ Len(receivers') = Len(receivers) - 1)
              => \E k \in 1..Len(receivers) :
                    receivers' = SubSeq(receivers, 1, k - 1)
                                   \o SubSeq(receivers, k + 1, Len(receivers))
      ]_vars

-----------------------------------------------------------------------------
(* Interleavings of TryClose, Close, AddSubscriber and the clears (checked  *)
(* under Spec)                                                              *)

\* C24: when the Close that TryClose calls sets the state to Closed, no slot of
\* the list holds a DummyReceiver that has a real delegate, whatever
\* SetupReceiver did meanwhile.
C24_Original ==
    [][ \A t \in Threads :
          (/\ pc[t].at = "TryClose_close" /\ pc'[t] # pc[t]
           /\ state # mediaTrackReceiverStateClosed
           /\ state' = mediaTrackReceiverStateClosed)
             => ~HasUpgradedDummy(slots, receivers) ]_vars

\* C25: the collaborator's AddSubscriber is called only while the state is
\* Open, whatever SetClosing, Close or TryClose did meanwhile.
C25_Original ==
    [][ added' # added => state = mediaTrackReceiverStateOpen ]_vars

\* C26: when no call is in progress, every subscriber the collaborator holds
\* has a WrappedReceiver built from slots that are still in the list: none is
\* attached to a slot that ClearAllReceivers removed.
C26_Original ==
    (\A t \in Threads : pc[t].at = "idle")
       => \A i \in 1..Len(subscribed) :
             \A k \in 1..Len(subscribed[i].recvs) :
                InList(receivers, subscribed[i].recvs[k])

-----------------------------------------------------------------------------
(* Concurrent fan-outs (checked under SpecFan) *)

\* the last call of an operation made to a slot (0: the collaborator); 0 when
\* there was none
LastCall(to, op) ==
    LET c == {i \in 1..Len(calls) : calls[i].to = to /\ calls[i].op = op}
    IN  IF c = {} THEN 0 ELSE CHOOSE i \in c : \A j \in c : j <= i

\* C27: when every SetMuted, also the one UpdateTrackInfo makes, has
\* completed, the last SetUpTrackPaused value each slot received and the last
\* SetMuted value the collaborator received equal TrackInfo.muted.
C27_Original ==
    (\A t \in Threads : pc[t].at = "idle")
       => /\ \A k \in 1..Len(receivers) :
                LastCall(receivers[k], "SetUpTrackPaused") # 0
                   => calls[LastCall(receivers[k], "SetUpTrackPaused")].muted
                         = trackInfo.muted
          /\ LastCall(0, "SetMuted") # 0
                => calls[LastCall(0, "SetMuted")].muted = trackInfo.muted

\* C28: when every SetLayerSsrc, UpdateCodecCid and UpdateTrackInfo has
\* completed, the last TrackInfo each slot received through UpdateTrackInfo is
\* the TrackInfo of the track (the muted flag, which SetMuted alone changes
\* without a push, left aside).
C28_Original ==
    (\A t \in Threads : pc[t].at = "idle")
       => \A k \in 1..Len(receivers) :
             LastCall(receivers[k], "UpdateTrackInfo") # 0
                => [calls[LastCall(receivers[k], "UpdateTrackInfo")].ti
                      EXCEPT !.muted = trackInfo.muted] = trackInfo

-----------------------------------------------------------------------------
(* Hooks registered late (checked under Spec) *)

\* C29: once the track is Closed and no call is in progress, so that nothing
\* is left that would invoke a hook, every hook AddOnClose accepted has been
\* invoked exactly once, also one registered after the state became Closed.
C29_Original ==
    (/\ state = mediaTrackReceiverStateClosed
     /\ \A t \in Threads : pc[t].at = "idle")
       => \A h \in 1..Len(onClose) :
             Cardinality({i \in 1..Len(closeCalls) : closeCalls[i].hook = h}) = 1

====
